---- MODULE Spec2Model ----
(***************************************************************************)
(* Model of the Arrvee audio analysis pipeline: the ARV binary codec       *)
(* (src/audio/arv_format.rs), the synchronized frame lookup                *)
(* (src/audio/prescan.rs), the feature normalizer                          *)
(* (src/audio/feature_normalizer.rs) and the beat detector                 *)
(* (src/audio/beat_detector.rs).                                           *)
(*                                                                         *)
(* f32 values are modelled as exact rationals <<n, d>> in lowest terms     *)
(* with d > 0; f32 rounding, NaN and infinities are outside the model.     *)
(***************************************************************************)
EXTENDS Integers, Sequences, FiniteSets, TLC

VARIABLES
    qIn, qKind, qPacked, qUnpacked, qpc,    \* quantizer harness
    data, disk, loaded, cpc,                 \* ARV codec: save_arv / load_arv
    spFrames, spTime, spIndex, spRet, spMono, \* SynchronizedPlayback
    nzF, nzA, nzRaw, outF, outA,             \* FeatureNormalizer: fixed, adaptive
    bd, bdRet, bdCalls, bdBeats,             \* BeatDetector and its results
    psArgs, psBackend, psInits, psUsed,      \* prescan tool: arguments, backend
    psPos, psFrames, psTally, psStats, pspc, \* prescan tool: scan loop, result
    pmA, pmB, pmShadow, pmFile, pmSaved,     \* parameter file: saver, loader, file
    pmLoad, pmRaw, pmOutA, pmOutB, pmOutS, pmCalls,
    wData, wQuota, wChunks, wBuf, wDisk, wRet, wpc, \* save_arv, write by write
    td, tdIn, tdCalls,                       \* tempo detector, its last input
    fxPrev, fxLast, fxSpec, fxCpu, fxFft, fxCalls \* spectral flux of both extractors

qvars == <<qIn, qKind, qPacked, qUnpacked, qpc>>
cvars == <<data, disk, loaded, cpc>>
svars == <<spFrames, spTime, spIndex, spRet, spMono>>
nvars == <<nzF, nzA, nzRaw, outF, outA>>
bvars == <<bd, bdRet, bdCalls, bdBeats>>
fvars == <<pmA, pmB, pmShadow, pmFile, pmSaved, pmLoad, pmRaw, pmOutA, pmOutB, pmOutS,
           pmCalls>>
wvars == <<wData, wQuota, wChunks, wBuf, wDisk, wRet, wpc>>
tvars == <<td, tdIn, tdCalls>>
xvars == <<fxPrev, fxLast, fxSpec, fxCpu, fxFft, fxCalls>>
pvars == <<psArgs, psBackend, psInits, psUsed, psPos, psFrames, psTally, psStats, pspc>>
vars == <<qIn, qKind, qPacked, qUnpacked, qpc, data, disk, loaded, cpc,
          spFrames, spTime, spIndex, spRet, spMono,
          nzF, nzA, nzRaw, outF, outA, bd, bdRet, bdCalls, bdBeats,
          psArgs, psBackend, psInits, psUsed, psPos, psFrames, psTally, psStats, pspc,
          pmA, pmB, pmShadow, pmFile, pmSaved, pmLoad, pmRaw, pmOutA, pmOutB, pmOutS,
          pmCalls,
          wData, wQuota, wChunks, wBuf, wDisk, wRet, wpc, td, tdIn, tdCalls,
          fxPrev, fxLast, fxSpec, fxCpu, fxFft, fxCalls>>

\* what the actions of one component leave alone: the other components
notQuant == <<cvars, svars, nvars, bvars, pvars, fvars, wvars, tvars, xvars>>
notCodec == <<qvars, svars, nvars, bvars, pvars, fvars, wvars, tvars, xvars>>
notSync == <<qvars, cvars, nvars, bvars, pvars, fvars, wvars, tvars, xvars>>
notNorm == <<qvars, cvars, svars, bvars, pvars, fvars, wvars, tvars, xvars>>
notBeat == <<qvars, cvars, svars, nvars, pvars, fvars, wvars, tvars, xvars>>
notScan == <<qvars, cvars, svars, nvars, bvars, fvars, wvars, tvars, xvars>>
notParams == <<qvars, cvars, svars, nvars, bvars, pvars, wvars, tvars, xvars>>
notWrite == <<qvars, cvars, svars, nvars, bvars, pvars, fvars, tvars, xvars>>
notTempo == <<qvars, cvars, svars, nvars, bvars, pvars, fvars, wvars, xvars>>
notFlux == <<qvars, cvars, svars, nvars, bvars, pvars, fvars, wvars, tvars>>

(***************************************************************************)
(* Exact rational arithmetic standing for f32 arithmetic.                  *)
(***************************************************************************)
Abs(i) == IF i < 0 THEN -i ELSE i

RECURSIVE GCD(_, _)
GCD(a, b) == IF b = 0 THEN a ELSE GCD(b, a % b)

Rat(n, d) ==
    LET s == IF d < 0 THEN -1 ELSE 1
        g == GCD(Abs(n), Abs(d))
    IN  <<(s * n) \div g, (s * d) \div g>>

RZero == <<0, 1>>
ROne == <<1, 1>>
RInt(i) == <<i, 1>>
RAdd(a, b) == Rat(a[1] * b[2] + b[1] * a[2], a[2] * b[2])
RSub(a, b) == Rat(a[1] * b[2] - b[1] * a[2], a[2] * b[2])
RMul(a, b) == Rat(a[1] * b[1], a[2] * b[2])
RDiv(a, b) == Rat(a[1] * b[2], a[2] * b[1])
RLe(a, b) == a[1] * b[2] <= b[1] * a[2]
RLt(a, b) == a[1] * b[2] < b[1] * a[2]
RMax(a, b) == IF RLt(a, b) THEN b ELSE a
RMin(a, b) == IF RLt(b, a) THEN b ELSE a
RAbs(a) == <<Abs(a[1]), a[2]>>
\* f32::clamp(lo, hi) for lo <= hi
RClamp(x, lo, hi) == IF RLt(x, lo) THEN lo ELSE IF RLt(hi, x) THEN hi ELSE x
\* `as u16` / `as u8` of a non-negative value: truncation toward zero
RTrunc(a) == a[1] \div a[2]

(***************************************************************************)
(* arv_format.rs: constants and the quantizers of PackedFrame.             *)
(***************************************************************************)
MAGIC_BYTES == <<65, 82, 86, 86>>
FORMAT_VERSION == 1
BYTES_PER_FRAME == 16
U16Scale == 65535
BeatScale == 51
BeatMax == 5

pack_float_rounding(value) ==
    LET c == RClamp(value, RZero, ROne)
    IN  RTrunc(RAdd(RMul(c, RInt(U16Scale)), <<1, 2>>))

pack_float(value) == RTrunc(RMul(RClamp(value, RZero, ROne), RInt(U16Scale)))

unpack_float_pow2(value) == Rat(value, U16Scale + 1)

unpack_float(value) == Rat(value, U16Scale)

\* a beat-strength quantizer that rounds to nearest
pack_beat_strength_rounding(strength) ==
    RTrunc(RAdd(RMul(RClamp(strength, RZero, RInt(BeatMax)), RInt(BeatScale)), <<1, 2>>))

pack_beat_strength(strength) ==
    RTrunc(RMul(RClamp(strength, RZero, RInt(BeatMax)), RInt(BeatScale)))

unpack_beat_strength(value) == Rat(value, BeatScale)

(***************************************************************************)
(* Byte-level helpers: little-endian integers, prefixes of a byte string.  *)
(***************************************************************************)
Take(s, n) == SubSeq(s, 1, n)
Drop(s, n) == SubSeq(s, n + 1, Len(s))

LE16(n) == <<n % 256, (n \div 256) % 256>>
FromLE16(b) == b[1] + 256 * b[2]
LE32(n) == <<n % 256, (n \div 256) % 256, (n \div 65536) % 256, (n \div 16777216) % 256>>
FromLE32(b) == b[1] + 256 * b[2] + 65536 * b[3] + 16777216 * b[4]

(***************************************************************************)
(* serde_json text of FileInfo and AnalysisStatistics.  The text is a      *)
(* positional object '{' v ',' v ... '}'; a string is quoted, an integer   *)
(* is its decimal digits, an f32 is written as digits '/' digits (with a   *)
(* leading '-' when negative).  Parsing rejects anything else, including   *)
(* trailing bytes.                                                         *)
(***************************************************************************)
Ch == [lbrace |-> 123, rbrace |-> 125, comma |-> 44, quote |-> 34,
       slash |-> 47, minus |-> 45, zero |-> 48]

RECURSIVE NatDigits(_)
NatDigits(n) ==
    IF n < 10 THEN <<Ch.zero + n>> ELSE NatDigits(n \div 10) \o <<Ch.zero + (n % 10)>>

JStr(s) == <<Ch.quote>> \o s \o <<Ch.quote>>
JNat(n) == NatDigits(n)
JNum(r) ==
    (IF r[1] < 0 THEN <<Ch.minus>> ELSE <<>>) \o NatDigits(Abs(r[1]))
        \o <<Ch.slash>> \o NatDigits(r[2])

RECURSIVE JJoin(_)
JJoin(vs) ==
    IF Len(vs) = 0 THEN <<>>
    ELSE IF Len(vs) = 1 THEN vs[1]
    ELSE vs[1] \o <<Ch.comma>> \o JJoin(Tail(vs))

JObj(vs) == <<Ch.lbrace>> \o JJoin(vs) \o <<Ch.rbrace>>

IsDigit(c) == c >= Ch.zero /\ c <= Ch.zero + 9

\* parsers return [ok, val, rest]
PFail == [ok |-> FALSE, val |-> 0, rest |-> <<>>]

RECURSIVE PNatAcc(_, _, _)
PNatAcc(b, acc, seen) ==
    IF Len(b) > 0 /\ IsDigit(b[1])
    THEN PNatAcc(Tail(b), acc * 10 + (b[1] - Ch.zero), TRUE)
    ELSE IF seen THEN [ok |-> TRUE, val |-> acc, rest |-> b] ELSE PFail

PNat(b) == PNatAcc(b, 0, FALSE)

PNumDen(n, d) ==
    IF d.ok /\ d.val > 0
    THEN [ok |-> TRUE, val |-> Rat(n, d.val), rest |-> d.rest]
    ELSE PFail

PNumSlash(neg, n) ==
    IF n.ok /\ Len(n.rest) > 0 /\ n.rest[1] = Ch.slash
    THEN PNumDen(IF neg THEN -n.val ELSE n.val, PNat(Tail(n.rest)))
    ELSE PFail

PNum(b) ==
    IF Len(b) > 0 /\ b[1] = Ch.minus
    THEN PNumSlash(TRUE, PNat(Tail(b)))
    ELSE PNumSlash(FALSE, PNat(b))

RECURSIVE PStrBody(_, _)
PStrBody(b, acc) ==
    IF Len(b) = 0 THEN PFail
    ELSE IF b[1] = Ch.quote THEN [ok |-> TRUE, val |-> acc, rest |-> Tail(b)]
    ELSE PStrBody(Tail(b), Append(acc, b[1]))

PStr(b) ==
    IF Len(b) > 0 /\ b[1] = Ch.quote THEN PStrBody(Tail(b), <<>>) ELSE PFail

\* one field of kind k: "s" string, "n" integer, "f" f32
PField(b, k) ==
    IF k = "s" THEN PStr(b) ELSE IF k = "n" THEN PNat(b) ELSE PNum(b)

\* the fields of kinds ks, comma separated; each parsed field is wrapped as <<v>>
RECURSIVE PFields(_, _, _)
RECURSIVE PFieldsNext(_, _, _)
PFieldsNext(r, ks, acc) ==
    IF r.ok THEN PFields(r.rest, Tail(ks), Append(acc, <<r.val>>)) ELSE PFail

PFields(b, ks, acc) ==
    IF Len(ks) = 0 THEN [ok |-> TRUE, val |-> acc, rest |-> b]
    ELSE IF Len(acc) = 0 THEN PFieldsNext(PField(b, Head(ks)), ks, acc)
    ELSE IF Len(b) > 0 /\ b[1] = Ch.comma
         THEN PFieldsNext(PField(Tail(b), Head(ks)), ks, acc)
    ELSE PFail

\* '{' fields '}' and nothing after it
PObjClose(f) ==
    IF f.ok /\ f.rest = <<Ch.rbrace>>
    THEN [ok |-> TRUE, val |-> f.val]
    ELSE [ok |-> FALSE, val |-> <<>>]

PObj(b, ks) ==
    IF Len(b) > 0 /\ b[1] = Ch.lbrace
    THEN PObjClose(PFields(Tail(b), ks, <<>>))
    ELSE [ok |-> FALSE, val |-> <<>>]

FileInfoKinds == <<"s", "f", "f", "n", "f", "n">>

FileInfoToJson(fi) ==
    JObj(<<JStr(fi.filename), JNum(fi.duration_seconds), JNum(fi.sample_rate),
           JNat(fi.total_samples), JNum(fi.frame_rate), JNat(fi.chunk_size)>>)

FileInfoOfFields(o) ==
    IF o.ok
    THEN [ok |-> TRUE,
          val |-> <<[filename |-> o.val[1][1], duration_seconds |-> o.val[2][1],
                     sample_rate |-> o.val[3][1], total_samples |-> o.val[4][1],
                     frame_rate |-> o.val[5][1], chunk_size |-> o.val[6][1]]>>]
    ELSE [ok |-> FALSE, val |-> <<>>]

FileInfoFromJson(b) == FileInfoOfFields(PObj(b, FileInfoKinds))

StatsKinds == <<"f", "f", "f", "f", "f", "f", "f", "n", "f", "f", "f", "s", "s", "f">>

StatsToJson(st) ==
    JObj(<<JNum(st.peak_bass), JNum(st.peak_mid), JNum(st.peak_treble),
           JNum(st.peak_presence), JNum(st.peak_volume), JNum(st.peak_spectral_flux),
           JNum(st.peak_onset), JNat(st.total_beats), JNum(st.average_bpm),
           JNum(st.bpm_range[1]), JNum(st.bpm_range[2]),
           JStr(st.dominant_frequency_range), JStr(st.energy_profile),
           JNum(st.complexity_score)>>)

StatsOfFields(o) ==
    IF o.ok
    THEN [ok |-> TRUE,
          val |-> <<[peak_bass |-> o.val[1][1], peak_mid |-> o.val[2][1],
                     peak_treble |-> o.val[3][1], peak_presence |-> o.val[4][1],
                     peak_volume |-> o.val[5][1], peak_spectral_flux |-> o.val[6][1],
                     peak_onset |-> o.val[7][1], total_beats |-> o.val[8][1],
                     average_bpm |-> o.val[9][1],
                     bpm_range |-> <<o.val[10][1], o.val[11][1]>>,
                     dominant_frequency_range |-> o.val[12][1],
                     energy_profile |-> o.val[13][1],
                     complexity_score |-> o.val[14][1]]>>]
    ELSE [ok |-> FALSE, val |-> <<>>]

StatsFromJson(b) == StatsOfFields(PObj(b, StatsKinds))

(***************************************************************************)
(* PackedFrame (#[repr(packed)]): eight u16 fields, two u8 fields and a    *)
(* u16 reserved field, 20 bytes in memory.  The image below is the         *)
(* declared field order with little-endian u16 fields, the layout rustc    *)
(* gives this struct on little-endian targets.  BYTES_PER_FRAME is 16, so  *)
(* save_arv writes the first 16 bytes of the image only (the eight u16     *)
(* fields), and load_arv reads 16 bytes into a 16-byte buffer and then     *)
(* dereferences it as a 20-byte PackedFrame: bytes 17..20 (beat_data,      *)
(* beat_strength, reserved) are read past the end of the buffer.           *)
(***************************************************************************)
PackedFrameSize == 20

from_prescan_frame(frame) ==
    [bass |-> pack_float(frame.frequency_bands.bass),
     mid |-> pack_float(frame.frequency_bands.mid),
     treble |-> pack_float(frame.frequency_bands.treble),
     sub_bass |-> pack_float(frame.frequency_bands.sub_bass),
     presence |-> pack_float(frame.frequency_bands.presence),
     spectral_centroid |-> pack_float(frame.spectral_centroid),
     pitch_confidence |-> pack_float(frame.pitch_confidence),
     onset_strength |-> pack_float(frame.onset_strength),
     beat_data |-> IF frame.beat_detected THEN 1 ELSE 0,
     beat_strength |-> pack_beat_strength(frame.beat_strength),
     reserved |-> 0]

to_prescan_frame(pf, timestamp, estimated_bpm) ==
    [timestamp |-> timestamp,
     frequency_bands |->
        [bass |-> unpack_float(pf.bass),
         mid |-> unpack_float(pf.mid),
         treble |-> unpack_float(pf.treble),
         sub_bass |-> unpack_float(pf.sub_bass),
         presence |-> unpack_float(pf.presence)],
     beat_detected |-> (pf.beat_data % 2) # 0,
     beat_strength |-> unpack_beat_strength(pf.beat_strength),
     estimated_bpm |-> estimated_bpm,
     spectral_centroid |-> unpack_float(pf.spectral_centroid),
     spectral_rolloff |-> RZero,
     pitch_confidence |-> unpack_float(pf.pitch_confidence),
     zero_crossing_rate |-> RZero,
     spectral_flux |-> RZero,
     onset_strength |-> unpack_float(pf.onset_strength),
     dynamic_range |-> RZero,
     volume |-> RZero]

PackedFrameBytes(pf) ==
    LE16(pf.bass) \o LE16(pf.mid) \o LE16(pf.treble) \o LE16(pf.sub_bass)
        \o LE16(pf.presence) \o LE16(pf.spectral_centroid)
        \o LE16(pf.pitch_confidence) \o LE16(pf.onset_strength)
        \o <<pf.beat_data, pf.beat_strength>> \o LE16(pf.reserved)

PackedFrameFromBytes(b) ==
    [bass |-> FromLE16(SubSeq(b, 1, 2)),
     mid |-> FromLE16(SubSeq(b, 3, 4)),
     treble |-> FromLE16(SubSeq(b, 5, 6)),
     sub_bass |-> FromLE16(SubSeq(b, 7, 8)),
     presence |-> FromLE16(SubSeq(b, 9, 10)),
     spectral_centroid |-> FromLE16(SubSeq(b, 11, 12)),
     pitch_confidence |-> FromLE16(SubSeq(b, 13, 14)),
     onset_strength |-> FromLE16(SubSeq(b, 15, 16)),
     beat_data |-> b[17],
     beat_strength |-> b[18],
     reserved |-> FromLE16(SubSeq(b, 19, 20))]

(***************************************************************************)
(* save_arv: the bytes written, in order.                                  *)
(***************************************************************************)
\* std::slice::from_raw_parts(&packed as *const u8, BYTES_PER_FRAME)
WrittenFrameBytes(frame) ==
    Take(PackedFrameBytes(from_prescan_frame(frame)), BYTES_PER_FRAME)

RECURSIVE PackedFramesBytes(_)
PackedFramesBytes(frames) ==
    IF Len(frames) = 0 THEN <<>>
    ELSE WrittenFrameBytes(Head(frames)) \o PackedFramesBytes(Tail(frames))

save_arv(prescan_data) ==
    LET file_info_json == FileInfoToJson(prescan_data.file_info)
        stats_json == StatsToJson(prescan_data.statistics)
    IN  MAGIC_BYTES \o <<FORMAT_VERSION>>
            \o LE32(Len(file_info_json)) \o file_info_json
            \o LE32(Len(stats_json)) \o stats_json
            \o LE32(Len(prescan_data.frames))
            \o PackedFramesBytes(prescan_data.frames)

(***************************************************************************)
(* load_arv: sequential read_exact calls over the file's bytes.  A         *)
(* read_exact(n) with fewer than n bytes left is an I/O error.  The bytes  *)
(* the PackedFrame dereference reads past the 16-byte buffer are undefined *)
(* behaviour: `past` gives, per frame, the PackedFrameSize-BYTES_PER_FRAME *)
(* bytes the build happens to find there.                                  *)
(***************************************************************************)
LoadErr(kind) == [status |-> kind, data |-> <<>>]

\* *(packed_data.as_ptr() as *const PackedFrame)
DerefPackedFrame(packed_data, pastEnd) ==
    PackedFrameFromBytes(packed_data \o pastEnd)

\* timestamps counted from the end of each window
FrameTimestamp_WindowEnd(i, file_info) == RDiv(RInt(i + 1), file_info.frame_rate)

\* let timestamp = i as f32 / file_info.frame_rate
FrameTimestamp(i, file_info) == RDiv(RInt(i), file_info.frame_rate)

FrameBpm_RangeLow(statistics) == statistics.bpm_range[1]

\* let estimated_bpm = statistics.average_bpm
FrameBpm(statistics) == statistics.average_bpm

ReadFramesPush(frame, more) ==
    [ok |-> more.ok, frames |-> <<frame>> \o more.frames]

\* a reader that stops at a short read and keeps the frames read so far
RECURSIVE ReadFrames_Lenient(_, _, _, _, _, _)
ReadFrames_Lenient(b, i, frame_count, file_info, statistics, past) ==
    IF i >= frame_count \/ Len(b) < BYTES_PER_FRAME
    THEN [ok |-> TRUE, frames |-> <<>>]
    ELSE ReadFramesPush(
            to_prescan_frame(
                DerefPackedFrame(Take(b, BYTES_PER_FRAME), past[i + 1]),
                FrameTimestamp(i, file_info), FrameBpm(statistics)),
            ReadFrames_Lenient(Drop(b, BYTES_PER_FRAME), i + 1, frame_count,
                               file_info, statistics, past))

\* the loop body for frame i: decode, then go on with the bytes left
RECURSIVE ReadFrames(_, _, _, _, _, _)

ReadFrames(b, i, frame_count, file_info, statistics, past) ==
    IF i >= frame_count THEN [ok |-> TRUE, frames |-> <<>>]
    ELSE IF Len(b) < BYTES_PER_FRAME THEN [ok |-> FALSE, frames |-> <<>>]
    ELSE ReadFramesPush(
            to_prescan_frame(
                DerefPackedFrame(Take(b, BYTES_PER_FRAME), past[i + 1]),
                FrameTimestamp(i, file_info), FrameBpm(statistics)),
            ReadFrames(Drop(b, BYTES_PER_FRAME), i + 1, frame_count,
                       file_info, statistics, past))

\* the reads up to and including the frame count; each step takes the bytes
\* left after the step before it
HeaderCount(fi, st, b) ==
    IF ~st.ok THEN [status |-> "Json"]
    ELSE IF Len(b) < 4 THEN [status |-> "Io"]
    ELSE [status |-> "Ok", file_info |-> fi.val[1], statistics |-> st.val[1],
          frame_count |-> FromLE32(Take(b, 4)), rest |-> Drop(b, 4)]

HeaderStatsBody(fi, stats_len, b) ==
    IF Len(b) < stats_len THEN [status |-> "Io"]
    ELSE HeaderCount(fi, StatsFromJson(Take(b, stats_len)), Drop(b, stats_len))

HeaderStats(fi, b) ==
    IF ~fi.ok THEN [status |-> "Json"]
    ELSE IF Len(b) < 4 THEN [status |-> "Io"]
    ELSE HeaderStatsBody(fi, FromLE32(Take(b, 4)), Drop(b, 4))

HeaderInfoBody(file_info_len, b) ==
    IF Len(b) < file_info_len THEN [status |-> "Io"]
    ELSE HeaderStats(FileInfoFromJson(Take(b, file_info_len)), Drop(b, file_info_len))

\* a reader that looks at the version byte first
CheckMagicVersion_VersionFirst(b) ==
    IF Len(b) < 5 THEN "Io"
    ELSE IF b[5] # FORMAT_VERSION THEN "UnsupportedVersion"
    ELSE IF Take(b, 4) # MAGIC_BYTES THEN "BadMagic"
    ELSE "Ok"

\* read_exact(magic), compare; read_exact(version), compare
CheckMagicVersion(b) ==
    IF Len(b) < 4 THEN "Io"
    ELSE IF Take(b, 4) # MAGIC_BYTES THEN "BadMagic"
    ELSE IF Len(b) < 5 THEN "Io"
    ELSE IF b[5] # FORMAT_VERSION THEN "UnsupportedVersion"
    ELSE "Ok"

HeaderAfterVersion(check, b) ==
    IF check # "Ok" THEN [status |-> check]
    ELSE IF Len(b) < 9 THEN [status |-> "Io"]
    ELSE HeaderInfoBody(FromLE32(SubSeq(b, 6, 9)), Drop(b, 9))

load_header(b) == HeaderAfterVersion(CheckMagicVersion(b), b)

LoadFrames(h, fr) ==
    IF ~fr.ok THEN LoadErr("Io")
    ELSE [status |-> "Ok",
          data |-> <<[file_info |-> h.file_info, frames |-> fr.frames,
                      statistics |-> h.statistics]>>]

LoadBody(h, past) ==
    IF h.status # "Ok" THEN LoadErr(h.status)
    ELSE LoadFrames(h, ReadFrames(h.rest, 0, h.frame_count, h.file_info,
                                  h.statistics, past))

load_arv(b, past) == LoadBody(load_header(b), past)

\* how many frames load_arv dereferences before it returns
FramesAvailable(h) ==
    IF h.status # "Ok" THEN 0
    ELSE IF h.frame_count * BYTES_PER_FRAME <= Len(h.rest) THEN h.frame_count
    ELSE Len(h.rest) \div BYTES_PER_FRAME

FramesDereferenced(b) == FramesAvailable(load_header(b))

(***************************************************************************)
(* prescan.rs: SynchronizedPlayback.  Only the frame timestamps matter to  *)
(* the lookup; they and the playback times are counted in ticks, and the   *)
(* lookup only compares them.  spFrames[i + 1] is the timestamp of         *)
(* prescan_data.frames[i]; spRet is the index of the frame returned, or    *)
(* -1 for None, or -2 before the first call.                               *)
(***************************************************************************)
MaxTime == 4
MaxSyncFrames == 3

RECURSIVE SortedSeq(_)
SortedSeq(S) ==
    IF S = {} THEN <<>>
    ELSE LET lo == CHOOSE x \in S : \A y \in S : x <= y
         IN  <<lo>> \o SortedSeq(S \ {lo})

\* timestamp sequences as a prescan produces them: strictly increasing
TimestampInputs ==
    { SortedSeq(S) : S \in { T \in SUBSET (0 .. MaxTime) : Cardinality(T) <= MaxSyncFrames } }

SIdle ==
    /\ spFrames = <<>>
    /\ spTime = 0
    /\ spIndex = 0
    /\ spRet = -2
    /\ spMono = TRUE

\* SynchronizedPlayback::new
SInit ==
    /\ spFrames \in TimestampInputs
    /\ spTime = 0
    /\ spIndex = 0
    /\ spRet = -2
    /\ spMono = TRUE

\* a forward scan that also stops when the next frame starts exactly at t
RECURSIVE ScanForward_StopAtEqual(_, _, _)
ScanForward_StopAtEqual(ts, idx, t) ==
    IF idx < Len(ts)
    THEN IF ts[idx + 1] <= t
         THEN IF idx + 1 < Len(ts)
              THEN IF ts[idx + 2] >= t
                   THEN [returned |-> TRUE, idx |-> idx]
                   ELSE ScanForward_StopAtEqual(ts, idx + 1, t)
              ELSE [returned |-> TRUE, idx |-> idx]
         ELSE [returned |-> FALSE, idx |-> idx]
    ELSE [returned |-> FALSE, idx |-> idx]

\* the first while loop: returned = TRUE when it returns Some(frame) from
\* inside the loop, FALSE when it breaks or runs off the end
RECURSIVE ScanForward(_, _, _)
ScanForward(ts, idx, t) ==
    IF idx < Len(ts)
    THEN IF ts[idx + 1] <= t
         THEN IF idx + 1 < Len(ts)
              THEN IF ts[idx + 2] > t
                   THEN [returned |-> TRUE, idx |-> idx]
                   ELSE ScanForward(ts, idx + 1, t)
              ELSE [returned |-> TRUE, idx |-> idx]
         ELSE [returned |-> FALSE, idx |-> idx]
    ELSE [returned |-> FALSE, idx |-> idx]

\* a cursor that never moves back
WalkBack_Stay(ts, idx, t) == idx

\* the second while loop: walk back while the frame at the cursor is late
RECURSIVE WalkBack(_, _, _)
WalkBack(ts, idx, t) ==
    IF idx > 0 /\ ts[idx + 1] > t THEN WalkBack(ts, idx - 1, t) ELSE idx

\* self.prescan_data.frames.get(idx)
FramesGet(ts, idx) == IF idx < Len(ts) THEN idx ELSE -1

\* the cursor after the call and the frame returned
SyncAfterScan(ts, fwd, t) ==
    IF fwd.returned THEN [idx |-> fwd.idx, ret |-> fwd.idx]
    ELSE [idx |-> WalkBack(ts, fwd.idx, t),
          ret |-> FramesGet(ts, WalkBack(ts, fwd.idx, t))]

get_synchronized_frame(ts, idx, t) == SyncAfterScan(ts, ScanForward(ts, idx, t), t)

GetSynchronizedFrame ==
    \E t \in -1 .. MaxTime + 1 :
        /\ spTime' = t
        /\ spIndex' = get_synchronized_frame(spFrames, spIndex, t).idx
        /\ spRet' = get_synchronized_frame(spFrames, spIndex, t).ret
        /\ spMono' = (spMono /\ (spRet = -2 \/ spTime <= t))
        /\ UNCHANGED <<spFrames, notSync>>

SNext == GetSynchronizedFrame

\* the last frame whose timestamp is <= t, frame 0 when there is none
ExpectedFrame(ts, t) ==
    IF \E i \in 1 .. Len(ts) : ts[i] <= t
    THEN (CHOOSE i \in 1 .. Len(ts) :
            ts[i] <= t /\ \A j \in 1 .. Len(ts) : ts[j] <= t => j <= i) - 1
    ELSE 0

(***************************************************************************)
(* C3: on a fresh SynchronizedPlayback driven with non-decreasing times,   *)
(* get_synchronized_frame(t) returns frame i when ti <= t < t(i+1), frame  *)
(* 0 when t < t0, frame n when t >= tn, and None only when there are no    *)
(* frames.                                                                 *)
(***************************************************************************)
C3_LookupMonotone ==
    (spRet # -2 /\ spMono) =>
        IF Len(spFrames) = 0 THEN spRet = -1
        ELSE /\ spRet = ExpectedFrame(spFrames, spTime)
             /\ spTime < spFrames[1] => spRet = 0
             /\ spTime >= spFrames[Len(spFrames)] => spRet = Len(spFrames) - 1
             /\ \A i \in 1 .. Len(spFrames) - 1 :
                   (spFrames[i] <= spTime /\ spTime < spFrames[i + 1]) => spRet = i - 1

C3_Witness ==
    /\ spMono /\ Len(spFrames) = 3
    /\ spRet = 1 /\ spIndex = 1
    /\ spTime = spFrames[3] - 1 /\ spTime > spFrames[2]


(***************************************************************************)
(* C11: after any sequence of earlier queries, backward jumps included,    *)
(* get_synchronized_frame(t) on a non-empty frame sequence returns the     *)
(* last frame whose timestamp is <= t (frame 0 when there is none), so     *)
(* the result depends only on t and the frames; the cursor stays below     *)
(* the frame count; the call terminates.  On an empty sequence the cursor  *)
(* stays at 0 and the call returns None.                                   *)
(***************************************************************************)
C11_LookupAnyOrder ==
    spRet # -2 =>
        IF Len(spFrames) = 0 THEN spRet = -1 /\ spIndex = 0
        ELSE /\ spRet = ExpectedFrame(spFrames, spTime)
             /\ spIndex = spRet
             /\ spIndex >= 0 /\ spIndex < Len(spFrames)

\* a query has jumped backward and the cursor has come back from the last
\* frame to the middle one
C11_Witness ==
    /\ ~spMono
    /\ Len(spFrames) = 3
    /\ spTime = spFrames[2] /\ spTime < spFrames[3] - 1
    /\ spRet = 1 /\ spIndex = 1


(***************************************************************************)
(* feature_normalizer.rs: FeatureNormalizer.  A feature record is a        *)
(* function from field names to values; parameters.max[f] stands for the   *)
(* field f_max of NormalizationParameters and of ObservedRanges.           *)
(***************************************************************************)
ContFields ==
    {"sub_bass", "bass", "mid", "treble", "presence", "spectral_centroid",
     "spectral_rolloff", "spectral_flux", "zero_crossing_rate",
     "onset_strength", "beat_strength", "volume", "dynamic_range",
     "pitch_confidence"}

\* NormalizationParameters::default
DefaultParameters ==
    [max |-> [f \in ContFields |->
                CASE f = "sub_bass" -> Rat(1, 10000)
                  [] f = "bass" -> Rat(5, 10000)
                  [] f = "mid" -> Rat(2, 10000)
                  [] f = "treble" -> Rat(1, 10000)
                  [] f = "presence" -> Rat(5, 100000)
                  [] f = "spectral_centroid" -> RInt(8000)
                  [] f = "spectral_rolloff" -> RInt(12000)
                  [] f = "spectral_flux" -> Rat(1, 10000)
                  [] f = "zero_crossing_rate" -> Rat(1, 2)
                  [] f = "onset_strength" -> Rat(2, 10000)
                  [] f = "beat_strength" -> Rat(5, 10000)
                  [] f = "volume" -> Rat(1, 10000)
                  [] f = "dynamic_range" -> Rat(2, 10000)
                  [] f = "pitch_confidence" -> ROne],
     bpm_min |-> RInt(60),
     bpm_max |-> RInt(200)]

\* ObservedRanges::default
DefaultObservedRanges ==
    [max |-> [f \in ContFields |->
                IF f \in {"spectral_centroid", "spectral_rolloff"}
                THEN ROne ELSE Rat(1, 1000)],
     sample_count |-> 0]

\* the factor applied to an observed maximum in effective_parameters
Headroom(f) ==
    IF f \in {"spectral_centroid", "spectral_rolloff", "pitch_confidence"}
    THEN Rat(11, 10) ELSE Rat(12, 10)

WarmUpSamples == 100

\* FeatureNormalizer::new, new_adaptive, with_parameters
new == [parameters |-> DefaultParameters, adaptive |-> FALSE, observed_ranges |-> <<>>]

new_adaptive ==
    [parameters |-> DefaultParameters, adaptive |-> TRUE,
     observed_ranges |-> <<DefaultObservedRanges>>]

with_parameters(parameters) ==
    [parameters |-> parameters, adaptive |-> FALSE, observed_ranges |-> <<>>]

normalize_value_NoClamp(value, max_value) == RDiv(value, max_value)

normalize_value(value, max_value) == RClamp(RDiv(value, max_value), RZero, ROne)

\* observed ranges that never replace the configured bounds
ObservedParameters_Ignored(self) == self.parameters

ObservedParameters(self) ==
    [max |-> [f \in ContFields |->
                RMul(self.observed_ranges[1].max[f], Headroom(f))],
     bpm_min |-> self.parameters.bpm_min,
     bpm_max |-> self.parameters.bpm_max]

effective_parameters_NoWarmUp(self) ==
    IF Len(self.observed_ranges) = 1
    THEN ObservedParameters(self)
    ELSE self.parameters

effective_parameters(self) ==
    IF Len(self.observed_ranges) = 1
    THEN IF self.observed_ranges[1].sample_count > WarmUpSamples
         THEN ObservedParameters(self)
         ELSE self.parameters
    ELSE self.parameters

\* an update that counts the sample but leaves the maxima alone
update_observed_ranges_CountOnly(self, raw) ==
    IF Len(self.observed_ranges) = 1
    THEN [self EXCEPT !.observed_ranges[1].sample_count = @ + 1]
    ELSE self

update_observed_ranges(self, raw) ==
    IF Len(self.observed_ranges) = 1
    THEN [self EXCEPT !.observed_ranges =
            <<[max |-> [f \in ContFields |->
                          RMax(self.observed_ranges[1].max[f], raw[f])],
               sample_count |-> self.observed_ranges[1].sample_count + 1]>>]
    ELSE self

\* the normalizer after the `if self.adaptive` step of normalize
AfterObserve(self, raw) ==
    IF self.adaptive THEN update_observed_ranges(self, raw) ELSE self

\* the NormalizedAudioFeatures built from raw under the bounds params;
\* f32::clamp(min, max) panics when min > max
NormalizedWith(raw, params) ==
    IF RLt(params.bpm_max, params.bpm_min)
    THEN [status |-> "Panic", rec |-> <<>>]
    ELSE [status |-> "Ok",
          rec |-> <<[val |-> [f \in ContFields |->
                                normalize_value(raw[f], params.max[f])],
                     beat_detected |->
                        RLt(RMul(params.max["beat_strength"], Rat(3, 10)),
                            raw["beat_strength"]),
                     estimated_bpm |->
                        RClamp(raw["estimated_bpm"], params.bpm_min, params.bpm_max)]>>]

\* normalize: the value returned; the normalizer it leaves is AfterObserve
normalize(self, raw) == NormalizedWith(raw, effective_parameters(AfterObserve(self, raw)))

(***************************************************************************)
(* Normalizer harness: a fixed normalizer (default or custom bounds) and   *)
(* an adaptive one are fed the same raw records, one record per step.      *)
(***************************************************************************)
MaxSamples == 102

\* raw records: every continuous field is k times its default bound
RawScaled(k, bpm) ==
    [f \in ContFields \cup {"estimated_bpm"} |->
        IF f = "estimated_bpm" THEN bpm ELSE RMul(k, DefaultParameters.max[f])]

RawInputs ==
    { RawScaled(RZero, RZero),
      RawScaled(Rat(1, 2), RInt(120)),
      RawScaled(RInt(3), RInt(250)),
      [RawScaled(Rat(1, 4), RInt(40)) EXCEPT !["bass"] = RInt(1),
                                             !["spectral_centroid"] = RInt(20000)] }

UniformParameters(m, lo, hi) ==
    [max |-> [f \in ContFields |-> m], bpm_min |-> lo, bpm_max |-> hi]

\* bounds given to with_parameters: all positive
ParameterInputs ==
    { DefaultParameters,
      UniformParameters(ROne, RInt(60), RInt(200)),
      UniformParameters(Rat(1, 1000), RInt(100), RInt(100)),
      UniformParameters(Rat(1, 4000), RInt(200), RInt(60)) }

NoOutput == [status |-> "None", rec |-> <<>>]

NIdle ==
    /\ nzF = new
    /\ nzA = new
    /\ nzRaw = RawScaled(RZero, RZero)
    /\ outF = NoOutput
    /\ outA = NoOutput

NInit ==
    /\ \E p \in ParameterInputs : nzF = with_parameters(p)
    /\ nzA = new_adaptive
    /\ nzRaw = RawScaled(RZero, RZero)
    /\ outF = NoOutput
    /\ outA = NoOutput

\* one raw record goes through both normalizers
Normalize ==
    /\ outF.status # "Panic" /\ outA.status # "Panic"
    /\ nzA.observed_ranges[1].sample_count < MaxSamples
    /\ \E raw \in RawInputs :
        /\ nzRaw' = raw
        /\ nzF' = AfterObserve(nzF, raw)
        /\ outF' = normalize(nzF, raw)
        /\ nzA' = AfterObserve(nzA, raw)
        /\ outA' = normalize(nzA, raw)
    /\ UNCHANGED notNorm

NNext == Normalize

SampleCount == nzA.observed_ranges[1].sample_count

RawNonNegative(raw) == \A f \in DOMAIN raw : RLe(RZero, raw[f])

PositiveBounds(params) ==
    /\ \A f \in ContFields : RLt(RZero, params.max[f])
    /\ RLt(RZero, params.bpm_min)
    /\ RLt(RZero, params.bpm_max)

\* normalize returned a record whose continuous fields lie in [0,1] and
\* whose estimated_bpm lies in [bpm_min, bpm_max]
OutputBounded(out, params) ==
    /\ out.status = "Ok"
    /\ \A f \in ContFields :
          RLe(RZero, out.rec[1].val[f]) /\ RLe(out.rec[1].val[f], ROne)
    /\ RLe(params.bpm_min, out.rec[1].estimated_bpm)
    /\ RLe(out.rec[1].estimated_bpm, params.bpm_max)

(***************************************************************************)
(* C4 as stated: for every raw record with all fields >= 0 and every       *)
(* parameter set with positive bounds, normalize returns a record whose    *)
(* continuous fields lie in [0,1] and whose estimated_bpm lies in          *)
(* [bpm_min, bpm_max], in fixed and in adaptive mode, at every call.       *)
(***************************************************************************)
C4_BoundedForAnyPositiveBounds ==
    (outF.status # "None" /\ RawNonNegative(nzRaw)
        /\ PositiveBounds(nzF.parameters) /\ PositiveBounds(nzA.parameters)) =>
        /\ OutputBounded(outF, nzF.parameters)
        /\ OutputBounded(outA, nzA.parameters)

(***************************************************************************)
(* C4 amended: the same, for parameter sets with positive bounds and       *)
(* bpm_min <= bpm_max.                                                     *)
(***************************************************************************)
C4_OutputsBounded ==
    /\ (outF.status # "None" /\ RawNonNegative(nzRaw)
          /\ PositiveBounds(nzF.parameters)
          /\ RLe(nzF.parameters.bpm_min, nzF.parameters.bpm_max)) =>
          OutputBounded(outF, nzF.parameters)
    /\ (outA.status # "None" /\ RawNonNegative(nzRaw)
          /\ PositiveBounds(nzA.parameters)
          /\ RLe(nzA.parameters.bpm_min, nzA.parameters.bpm_max)) =>
          OutputBounded(outA, nzA.parameters)

\* past the warm-up, a record above every bound: outputs saturate at 1 and
\* the tempo at bpm_max
C4_Witness ==
    /\ SampleCount > WarmUpSamples
    /\ nzF.parameters = UniformParameters(ROne, RInt(60), RInt(200))
    /\ nzRaw = RawScaled(RInt(3), RInt(250))
    /\ outF.status = "Ok" /\ outA.status = "Ok"
    /\ outF.rec[1].val["spectral_centroid"] = ROne
    /\ outF.rec[1].estimated_bpm = RInt(200)
    /\ outA.rec[1].estimated_bpm = RInt(200)

(***************************************************************************)
(* C5: for fewer than 100 samples an adaptive normalizer returns at every  *)
(* call the same record as a fixed-default normalizer fed the same         *)
(* sequence; the observed ranges (with headroom) are the effective bounds  *)
(* only once the sample counter exceeds 100.                               *)
(***************************************************************************)
C5_AdaptiveWarmUp ==
    /\ (outA.status # "None" /\ nzF = new /\ SampleCount < 100) => outA = outF
    /\ SampleCount <= 100 => effective_parameters(nzA) = DefaultParameters
    /\ SampleCount > 100 =>
          \A f \in ContFields :
              effective_parameters(nzA).max[f] =
                  RMul(nzA.observed_ranges[1].max[f], Headroom(f))

\* the 99th sample, after the observed maxima have moved off their defaults
C5_Witness ==
    /\ SampleCount = 99
    /\ nzF = new
    /\ nzA.observed_ranges[1].max # DefaultObservedRanges.max
    /\ nzRaw = RawScaled(RInt(3), RInt(250))
    /\ outA.status = "Ok"
    /\ outA = outF


\* past the warm-up, the fields whose adaptive bound has grown beyond the
\* default bound (an outlier above the default range was observed)
\* the largest value seen for field f, with the field's headroom
AdaptiveBound(f) == RMul(nzA.observed_ranges[1].max[f], Headroom(f))

OutlierFields ==
    IF SampleCount > WarmUpSamples /\ nzF = new /\ outA.status = "Ok"
    THEN { f \in ContFields : RLt(DefaultParameters.max[f], AdaptiveBound(f)) }
    ELSE {}

AdaptiveCeiling(f) ==
    IF f \in {"spectral_centroid", "spectral_rolloff", "pitch_confidence"}
    THEN Rat(10, 11) ELSE Rat(5, 6)

\* past the warm-up every output is at most its ceiling, below 1, and the
\* running maxima cover the record just normalized
AdaptiveBelowCeiling ==
    (outA.status = "Ok" /\ SampleCount > 100) =>
        \A f \in ContFields :
            /\ RLe(outA.rec[1].val[f], AdaptiveCeiling(f))
            /\ RLt(outA.rec[1].val[f], ROne)
            /\ RLe(nzRaw[f], nzA.observed_ranges[1].max[f])

\* a call never lowers a running maximum and counts exactly one sample
MaximaGrow ==
    /\ \A f \in ContFields :
          RLe(nzA.observed_ranges[1].max[f], nzA'.observed_ranges[1].max[f])
    /\ nzA'.observed_ranges[1].sample_count = nzA.observed_ranges[1].sample_count + 1

(***************************************************************************)
(* C28: in adaptive mode, on every normalize call made after more than 100 *)
(* samples have been observed, each continuous output is at most 1/1.2 (at *)
(* most 1/1.1 for spectral centroid, spectral rolloff and pitch            *)
(* confidence) and never reaches 1, because the running maximum is raised  *)
(* to the current raw value before the bound is applied; the running       *)
(* maxima never decrease and the sample counter grows by one per call.     *)
(***************************************************************************)
C28_AdaptiveHeadroom == []AdaptiveBelowCeiling /\ [][MaximaGrow]_vars

\* a record three times above the default bounds, past the warm-up: every
\* output sits exactly at its ceiling
C28_Witness ==
    /\ SampleCount > WarmUpSamples
    /\ nzRaw = RawScaled(RInt(3), RInt(250))
    /\ outA.status = "Ok"
    /\ outA.rec[1].val["bass"] = Rat(5, 6)
    /\ outA.rec[1].val["spectral_centroid"] = Rat(10, 11)

(***************************************************************************)
(* beat_detector.rs: BeatDetector.  Detector time is the exact rational    *)
(* k * 1024 / sample_rate after k calls.  `energy > avg + sqrt(var) * k`   *)
(* is decided without the square root: energy - avg > 0 and                *)
(* (energy - avg)^2 > k^2 * var.                                           *)
(***************************************************************************)
MinHistory == 10
WindowSamples == 1024

\* BeatDetector::new
BeatDetector_new(sample_rate) ==
    [sample_rate |-> sample_rate,
     bass_history |-> <<>>,
     kick_history |-> <<>>,
     last_beat_time |-> RZero,
     time_counter |-> RZero,
     min_beat_interval |-> Rat(3, 10),
     history_size |-> (sample_rate \div 2) \div WindowSamples]

RECURSIVE RSum(_)
RSum(h) == IF h = <<>> THEN RZero ELSE RAdd(Head(h), RSum(Tail(h)))

Mean(h) == RDiv(RSum(h), RInt(Len(h)))

RECURSIVE SumSqDiff(_, _)
SumSqDiff(h, mean) ==
    IF h = <<>> THEN RZero
    ELSE RAdd(RMul(RSub(Head(h), mean), RSub(Head(h), mean)),
              SumSqDiff(Tail(h), mean))

calculate_variance(h, mean) ==
    IF Len(h) < 2 THEN RZero
    ELSE RDiv(SumSqDiff(h, mean), RInt(Len(h) - 1))

\* energy > avg + variance.sqrt() * k
AboveThreshold(energy, avg, variance, k) ==
    /\ RLt(RZero, RSub(energy, avg))
    /\ RLt(RMul(RMul(k, k), variance),
           RMul(RSub(energy, avg), RSub(energy, avg)))

\* a history that is never trimmed
PushBack_NoEvict(h, x, history_size) == Append(h, x)

\* push_back, then pop_front when the deque is longer than history_size
PushBack(h, x, history_size) ==
    IF Len(h) + 1 > history_size THEN Tail(Append(h, x)) ELSE Append(h, x)

can_beat_NoRefractory(self) == TRUE

can_beat(self) ==
    RLt(self.min_beat_interval, RSub(self.time_counter, self.last_beat_time))

\* energy > avg + variance(history, avg).sqrt() * k
OverHistory(energy, history, avg, k) ==
    AboveThreshold(energy, avg, calculate_variance(history, avg), k)

bass_beat(self, bass_energy) ==
    /\ OverHistory(bass_energy, self.bass_history, Mean(self.bass_history), Rat(3, 2))
    /\ RLt(Rat(1, 100), bass_energy)

kick_beat(self, kick_energy) ==
    /\ OverHistory(kick_energy, self.kick_history, Mean(self.kick_history), RInt(2))
    /\ RLt(Rat(15, 1000), kick_energy)

\* the strength without its cap
BeatStrength_Unclamped(self, bass_energy, kick_energy) ==
    RDiv(RAdd(RDiv(bass_energy, RMax(Mean(self.bass_history), Rat(1, 1000))),
              RDiv(kick_energy, RMax(Mean(self.kick_history), Rat(1, 1000)))),
         RInt(2))

BeatStrength(self, bass_energy, kick_energy) ==
    RMin(RDiv(RAdd(RDiv(bass_energy, RMax(Mean(self.bass_history), Rat(1, 1000))),
                   RDiv(kick_energy, RMax(Mean(self.kick_history), Rat(1, 1000)))),
              RInt(2)),
         RInt(5))

BeatResult(self, bass_energy, kick_energy, beat_detected) ==
    [self |-> IF beat_detected
              THEN [self EXCEPT !.last_beat_time = self.time_counter]
              ELSE self,
     beat_detected |-> beat_detected,
     beat_strength |-> IF beat_detected
                       THEN BeatStrength(self, bass_energy, kick_energy)
                       ELSE RZero]

\* detect_beat once the clock and the histories are updated
BeatDecision(self, bass_energy, kick_energy) ==
    IF Len(self.bass_history) < MinHistory
    THEN [self |-> self, beat_detected |-> FALSE, beat_strength |-> RZero]
    ELSE BeatResult(self, bass_energy, kick_energy,
                    can_beat(self) /\ (bass_beat(self, bass_energy)
                                        \/ kick_beat(self, kick_energy)))

BeatEnergies(self, bass_energy, kick_energy) ==
    BeatDecision(
        [self EXCEPT
            !.time_counter = RAdd(self.time_counter,
                                  Rat(WindowSamples, self.sample_rate)),
            !.bass_history = PushBack(self.bass_history, bass_energy, self.history_size),
            !.kick_history = PushBack(self.kick_history, kick_energy, self.history_size)],
        bass_energy, kick_energy)

detect_beat(self, bands) ==
    BeatEnergies(self,
                 RAdd(bands.bass, bands.sub_bass),
                 RAdd(RMul(bands.bass, Rat(3, 2)), RMul(bands.sub_bass, Rat(4, 5))))

(***************************************************************************)
(* Beat detector harness: a detector at one of two sample rates is fed a   *)
(* quiet or a loud window per call; bdBeats keeps the detector times of    *)
(* the last two calls that returned beat_detected = true.                  *)
(***************************************************************************)
MaxCalls == 18

SampleRates == {16000, 22050}

BandInputs ==
    { [bass |-> RZero, sub_bass |-> RZero],
      [bass |-> RInt(2), sub_bass |-> RZero] }

NoBeatResult == [called |-> FALSE, beat_detected |-> FALSE, beat_strength |-> RZero]

BIdle ==
    /\ bd = BeatDetector_new(44100)
    /\ bdRet = NoBeatResult
    /\ bdCalls = 0
    /\ bdBeats = <<>>

BInit ==
    /\ \E sample_rate \in SampleRates : bd = BeatDetector_new(sample_rate)
    /\ bdRet = NoBeatResult
    /\ bdCalls = 0
    /\ bdBeats = <<>>

LastTwo(h) == IF Len(h) > 2 THEN Tail(h) ELSE h

\* the harness state after a call that left `result`
Detected(result) ==
    /\ bd' = result.self
    /\ bdRet' = [called |-> TRUE,
                 beat_detected |-> result.beat_detected,
                 beat_strength |-> result.beat_strength]
    /\ bdBeats' = IF result.beat_detected
                  THEN LastTwo(Append(bdBeats, result.self.time_counter))
                  ELSE bdBeats

DetectBeat ==
    /\ bdCalls < MaxCalls
    /\ \E bands \in BandInputs : Detected(detect_beat(bd, bands))
    /\ bdCalls' = bdCalls + 1
    /\ UNCHANGED notBeat

BNext == DetectBeat

(***************************************************************************)
(* C6: two detect_beat calls that both return beat_detected = true are     *)
(* more than min_beat_interval (0.3 s) of detector time apart, whatever    *)
(* the band energies.                                                      *)
(***************************************************************************)
C6_BeatsApart ==
    /\ Len(bdBeats) = 2 => RLt(Rat(3, 10), RSub(bdBeats[2], bdBeats[1]))
    /\ (bdRet.beat_detected /\ Len(bdBeats) = 2) =>
          /\ bdBeats[2] = bd.time_counter
          /\ RLt(bd.min_beat_interval, RSub(bd.time_counter, bdBeats[1]))

\* a second beat on the first call allowed after the first one: 7 windows
\* of 1024 samples at 22050 Hz
C6_Witness ==
    /\ bd.sample_rate = 22050
    /\ bdRet.beat_detected
    /\ Len(bdBeats) = 2
    /\ RSub(bdBeats[2], bdBeats[1]) = Rat(7 * WindowSamples, 22050)

(***************************************************************************)
(* C22: detect_beat returns (false, 0.0) on every call made while the      *)
(* history holds fewer than 10 entries, whatever the band energies; when   *)
(* beat_detected is false the strength is 0, and the strength never        *)
(* exceeds 5.                                                              *)
(***************************************************************************)
C22_GracePeriod ==
    bdRet.called =>
        /\ (Len(bd.bass_history) < MinHistory \/ bdCalls < MinHistory)
              => (~bdRet.beat_detected /\ bdRet.beat_strength = RZero)
        /\ ~bdRet.beat_detected => bdRet.beat_strength = RZero
        /\ RLe(RZero, bdRet.beat_strength)
        /\ RLe(bdRet.beat_strength, RInt(5))

\* nine quiet windows, then a loud one: the tenth call is the first that can
\* report a beat, and its strength (10 before the cap) is returned as 5
C22_Witness ==
    /\ bdCalls = MinHistory
    /\ bd.history_size = MinHistory
    /\ bdRet.beat_detected
    /\ bdRet.beat_strength = RInt(5)
    /\ bd.bass_history[1] = RZero

\* the histories of both energies have the same length, within the capacity
HistoriesBounded ==
    /\ bd.history_size = (bd.sample_rate \div 2) \div WindowSamples
    /\ Len(bd.bass_history) = Len(bd.kick_history)
    /\ Len(bd.bass_history) <= bd.history_size
    /\ Len(bd.bass_history) = IF bdCalls < bd.history_size THEN bdCalls ELSE bd.history_size
    /\ bd.history_size < MinHistory => (~bdRet.beat_detected /\ bdBeats = <<>>)

\* before is followed by after: one entry appended, the oldest dropped when
\* the history was full
Shifted(before, after, history_size) ==
    /\ Len(after) >= 1
    /\ SubSeq(after, 1, Len(after) - 1)
          = IF Len(before) < history_size THEN before ELSE Tail(before)

HistoriesShift ==
    /\ Shifted(bd.bass_history, bd'.bass_history, bd.history_size)
    /\ Shifted(bd.kick_history, bd'.kick_history, bd.history_size)

(***************************************************************************)
(* C30: after every detect_beat call the bass and kick histories have the  *)
(* same length, at most history_size = floor(0.5 * sample_rate) / 1024,    *)
(* and each call appends one entry and evicts the oldest one when the      *)
(* history is full; a detector whose history_size is below 10 never        *)
(* reports a beat.                                                         *)
(***************************************************************************)
C30_HistoryWindow == []HistoriesBounded /\ [][HistoriesShift]_vars

\* at 16000 Hz the history holds 7 entries: after 18 calls, loud ones among
\* them, no beat was ever reported
C30_Witness ==
    /\ bd.sample_rate = 16000 /\ bd.history_size = 7
    /\ bdCalls = MaxCalls
    /\ Len(bd.bass_history) = 7
    /\ bd.bass_history[1] = RZero /\ bd.bass_history[7] = RInt(2)
    /\ bdBeats = <<>>

(***************************************************************************)
(* prescan_tool.rs: prescan_with_unified_architecture.  A window of audio  *)
(* is abstracted to its raw feature record: the CPU analyzer returns zeros *)
(* and estimated_bpm 120 for a silent window (cpu_analyzer.rs), and one of *)
(* the records of LoudRaw for any other window.  The compute shaders are   *)
(* not part of the sources: the GPU analyzer is taken to return the same   *)
(* record as the CPU analyzer when its dispatch succeeds.                  *)
(***************************************************************************)
PeakFields ==
    {"bass", "mid", "treble", "presence", "volume", "spectral_flux", "onset_strength"}

\* AnalysisStatistics::default
DefaultStatistics ==
    [peak |-> [f \in PeakFields |-> RZero],
     total_beats |-> 0,
     average_bpm |-> RInt(120),
     bpm_range |-> <<RInt(60), RInt(180)>>,
     dominant_frequency_range |-> "Unknown",
     energy_profile |-> "Unknown",
     complexity_score |-> Rat(1, 2)]

\* CpuAudioAnalyzer::extract_raw_features on a window of zeros
SilentRaw == RawScaled(RZero, RInt(120))

\* a quiet window whose five bands are the given fractions of their bounds
Shaped(sub_bass, bass, mid, treble, presence) ==
    [RawScaled(Rat(1, 5), RInt(120)) EXCEPT
        !["sub_bass"] = RMul(sub_bass, DefaultParameters.max["sub_bass"]),
        !["bass"] = RMul(bass, DefaultParameters.max["bass"]),
        !["mid"] = RMul(mid, DefaultParameters.max["mid"]),
        !["treble"] = RMul(treble, DefaultParameters.max["treble"]),
        !["presence"] = RMul(presence, DefaultParameters.max["presence"])]

\* extract_raw_features on windows that are not silent; the CPU tempo is
\* always 120
LoudRaw ==
    { RawScaled(Rat(1, 5), RInt(120)), RawScaled(RInt(3), RInt(120)),
      Shaped(Rat(1, 10), Rat(4, 5), Rat(2, 5), Rat(1, 5), Rat(1, 10)),
      Shaped(Rat(1, 2), Rat(3, 10), Rat(2, 5), Rat(1, 10), RZero),
      Shaped(RZero, Rat(1, 10), Rat(1, 5), Rat(1, 2), Rat(3, 5)),
      Shaped(RZero, Rat(1, 10), Rat(2, 5), Rat(3, 10), Rat(1, 2)) }

\* windows with a beat as the GPU analyzer may report them: its tempo is
\* read back from the device
GpuTempoRaw ==
    { RawScaled(RInt(3), RInt(60)), RawScaled(RInt(3), RInt(90)),
      RawScaled(RInt(3), RInt(240)) }

\* GpuAudioAnalyzer::analyze_chunk when the dispatch and read-back succeed
GpuFeatures(raw) == raw

\* the loop guard that also takes a trailing window shorter than chunk_size
ScanContinues_Partial(sample_pos, chunk_size, total_samples) ==
    sample_pos < total_samples

\* while sample_pos + chunk_size <= total_samples
ScanContinues(sample_pos, chunk_size, total_samples) ==
    sample_pos + chunk_size <= total_samples

\* the PrescanFrame built from the normalized features of one window
MkPrescanFrame(sample_pos, sample_rate, n) ==
    [timestamp |-> Rat(sample_pos, sample_rate),
     beat_detected |-> RLt(Rat(3, 10), n.val["beat_strength"]),
     estimated_bpm |-> n.estimated_bpm,
     features |-> n.val]

\* a tally that collects the tempo of every frame, beat or not
update_unified_statistics_AllFrames(tally, n) ==
    [peak |-> [f \in PeakFields |-> RMax(tally.peak[f], n.val[f])],
     beat_count |-> IF RLt(Rat(3, 10), n.val["beat_strength"])
                    THEN tally.beat_count + 1 ELSE tally.beat_count,
     bpm_values |-> IF RLt(RInt(60), n.estimated_bpm) /\ RLt(n.estimated_bpm, RInt(200))
                    THEN Append(tally.bpm_values, n.estimated_bpm)
                    ELSE tally.bpm_values]

\* update_unified_statistics
update_unified_statistics(tally, n) ==
    [peak |-> [f \in PeakFields |-> RMax(tally.peak[f], n.val[f])],
     beat_count |-> IF RLt(Rat(3, 10), n.val["beat_strength"])
                    THEN tally.beat_count + 1 ELSE tally.beat_count,
     bpm_values |-> IF /\ RLt(Rat(3, 10), n.val["beat_strength"])
                       /\ RLt(RInt(60), n.estimated_bpm)
                       /\ RLt(n.estimated_bpm, RInt(200))
                    THEN Append(tally.bpm_values, n.estimated_bpm)
                    ELSE tally.bpm_values]

\* frames.iter().map(|f| f.<field>).sum() over frames lo..hi, by halves
RECURSIVE FieldSumRange(_, _, _, _)
FieldSumRange(frames, f, lo, hi) ==
    IF lo > hi THEN RZero
    ELSE IF lo = hi THEN frames[lo].features[f]
    ELSE RAdd(FieldSumRange(frames, f, lo, (lo + hi) \div 2),
              FieldSumRange(frames, f, (lo + hi) \div 2 + 1, hi))

FieldAvg(frames, f) ==
    RDiv(FieldSumRange(frames, f, 1, Len(frames)), RInt(Len(frames)))

RECURSIVE VolumeSqDiffRange(_, _, _, _)
VolumeSqDiffRange(frames, avg, lo, hi) ==
    IF lo > hi THEN RZero
    ELSE IF lo = hi
         THEN RMul(RSub(frames[lo].features["volume"], avg),
                   RSub(frames[lo].features["volume"], avg))
    ELSE RAdd(VolumeSqDiffRange(frames, avg, lo, (lo + hi) \div 2),
              VolumeSqDiffRange(frames, avg, (lo + hi) \div 2 + 1, hi))

VolumeSqDiff(frames, avg) == VolumeSqDiffRange(frames, avg, 1, Len(frames))

\* a classification that never answers "Treble-Focused"
DominantRange_BassOnly(avg_bass, avg_mid, avg_treble) ==
    IF RLt(avg_mid, avg_bass) /\ RLt(avg_treble, avg_bass) THEN "Bass-Heavy"
    ELSE "Balanced"

DominantRange(avg_bass, avg_mid, avg_treble) ==
    IF RLt(avg_mid, avg_bass) /\ RLt(avg_treble, avg_bass) THEN "Bass-Heavy"
    ELSE IF RLt(avg_bass, avg_treble) /\ RLt(avg_mid, avg_treble) THEN "Treble-Focused"
    ELSE "Balanced"

EnergyProfile(avg_volume, volume_variance) ==
    IF RLt(Rat(1, 10), volume_variance) THEN "Dynamic"
    ELSE IF RLt(Rat(3, 10), avg_volume) THEN "High"
    ELSE IF RLt(Rat(1, 10), avg_volume) THEN "Medium"
    ELSE "Low"

ClassifyWith(stats, frames, avg_volume) ==
    [stats EXCEPT
        !.dominant_frequency_range =
            DominantRange(FieldAvg(frames, "bass"), FieldAvg(frames, "mid"),
                          FieldAvg(frames, "treble")),
        !.energy_profile =
            EnergyProfile(avg_volume,
                          RDiv(VolumeSqDiff(frames, avg_volume), RInt(Len(frames)))),
        !.complexity_score =
            RMin(RAdd(RAdd(FieldAvg(frames, "spectral_flux"),
                           FieldAvg(frames, "pitch_confidence")),
                      RDiv(VolumeSqDiff(frames, avg_volume), RInt(Len(frames)))),
                 ROne)]

\* classify_unified_content; with no frames every average is 0/0 = NaN, so
\* every comparison is false and NaN.min(1.0) is 1.0
classify_unified_content(stats, frames) ==
    IF frames = <<>>
    THEN [stats EXCEPT !.dominant_frequency_range = "Balanced",
                       !.energy_profile = "Low",
                       !.complexity_score = ROne]
    ELSE ClassifyWith(stats, frames, FieldAvg(frames, "volume"))

RECURSIVE RMinOf(_)
RMinOf(h) == IF Len(h) = 1 THEN h[1] ELSE RMin(Head(h), RMinOf(Tail(h)))

RECURSIVE RMaxOf(_)
RMaxOf(h) == IF Len(h) = 1 THEN h[1] ELSE RMax(Head(h), RMaxOf(Tail(h)))

\* an average that is 0 when no tempo value was collected
AverageBpm_NoDefault(bpm_values) ==
    IF bpm_values = <<>> THEN RZero
    ELSE RDiv(RSum(bpm_values), RInt(Len(bpm_values)))

\* statistics.average_bpm after the scan
AverageBpm(bpm_values) ==
    IF bpm_values = <<>> THEN DefaultStatistics.average_bpm
    ELSE RDiv(RSum(bpm_values), RInt(Len(bpm_values)))

\* "Finalize statistics" and "Classify content"
FinalStatistics(tally, frames) ==
    classify_unified_content(
        [DefaultStatistics EXCEPT
            !.peak = tally.peak,
            !.total_beats = tally.beat_count,
            !.average_bpm = AverageBpm(tally.bpm_values),
            !.bpm_range = IF tally.bpm_values = <<>> THEN @
                          ELSE <<RMinOf(tally.bpm_values), RMaxOf(tally.bpm_values)>>],
        frames)

(***************************************************************************)
(* Prescan harness: the arguments are drawn at the start; each step of the *)
(* scan analyzes one window.                                               *)
(***************************************************************************)
MaxTotalSamples == 7

\* 2 seconds of silence at 44100 Hz, chunk size 512
SilentTwoSeconds ==
    [total_samples |-> 2 * 44100, chunk_size |-> 512, sample_rate |-> 44100,
     silent |-> TRUE]

ArgInputs ==
    { [total_samples |-> n, chunk_size |-> c, sample_rate |-> 8, silent |-> FALSE] :
        n \in 0 .. MaxTotalSamples, c \in {2, 3} } \cup {SilentTwoSeconds}

NoTally == [peak |-> [f \in PeakFields |-> RZero], beat_count |-> 0, bpm_values |-> <<>>]

PIdle ==
    /\ psArgs = SilentTwoSeconds
    /\ psBackend = "none" /\ psInits = 0 /\ psUsed = {}
    /\ psPos = 0 /\ psFrames = <<>> /\ psTally = NoTally
    /\ psStats = DefaultStatistics
    /\ pspc = "idle"

PInit ==
    /\ psArgs \in ArgInputs
    /\ psBackend = "none" /\ psInits = 0 /\ psUsed = {}
    /\ psPos = 0 /\ psFrames = <<>> /\ psTally = NoTally
    /\ psStats = DefaultStatistics
    /\ pspc = "start"

\* File::open / Decoder::new fail: the error is returned
DecodeFails ==
    /\ pspc = "start"
    /\ pspc' = "failed_decode"
    /\ UNCHANGED <<psArgs, psBackend, psInits, psUsed, psPos, psFrames, psTally,
                   psStats, notScan>>

\* the audio is loaded; new_standalone is tried once, CPU on failure
SelectBackend ==
    /\ pspc = "start"
    /\ \E gpu_ok \in BOOLEAN : psBackend' = IF gpu_ok THEN "GPU" ELSE "CPU"
    /\ psInits' = psInits + 1
    /\ pspc' = "scan"
    /\ UNCHANGED <<psArgs, psUsed, psPos, psFrames, psTally, psStats, notScan>>

\* a scan that picks its backend again at every window after the first
analyzer_type_PerWindow(backend, frames) ==
    IF frames = <<>> THEN backend ELSE "CPU"

\* the backend behind the boxed analyzer chosen before the loop
analyzer_type(backend, frames) == backend

\* the loop body once analyze_chunk has returned Ok(raw)
WindowAnalyzed(raw) ==
    /\ psFrames' = Append(psFrames,
                          MkPrescanFrame(psPos, psArgs.sample_rate,
                                         normalize(new, raw).rec[1]))
    /\ psTally' = update_unified_statistics(psTally, normalize(new, raw).rec[1])
    /\ psPos' = psPos + psArgs.chunk_size
    /\ psUsed' = psUsed \cup {analyzer_type(psBackend, psFrames)}
    /\ UNCHANGED <<psArgs, psBackend, psInits, psStats, pspc, notScan>>

\* the raw features analyze_chunk may return for the next window
WindowFeatures(silent, backend) ==
    IF silent THEN {SilentRaw}
    ELSE IF backend = "GPU" THEN {SilentRaw} \cup LoudRaw \cup GpuTempoRaw
    ELSE {SilentRaw} \cup LoudRaw

\* one iteration of the scan loop with analyze_chunk returning Ok
AnalyzeWindow ==
    /\ pspc = "scan"
    /\ ScanContinues(psPos, psArgs.chunk_size, psArgs.total_samples)
    /\ \E raw \in WindowFeatures(psArgs.silent, psBackend) :
          WindowAnalyzed(IF psBackend = "GPU" THEN GpuFeatures(raw) ELSE raw)

\* analyze_chunk(chunk).await? on the GPU backend returns Err: the `?`
\* returns the error from prescan_with_unified_architecture
DispatchFails ==
    /\ pspc = "scan"
    /\ ScanContinues(psPos, psArgs.chunk_size, psArgs.total_samples)
    /\ psBackend = "GPU"
    /\ pspc' = "failed_backend"
    /\ psUsed' = psUsed \cup {psBackend}
    /\ UNCHANGED <<psArgs, psBackend, psInits, psPos, psFrames, psTally, psStats,
                   notScan>>

\* the loop ends: statistics are finalized and Ok(PrescanData) is returned
FinishScan ==
    /\ pspc = "scan"
    /\ ~ScanContinues(psPos, psArgs.chunk_size, psArgs.total_samples)
    /\ psStats' = FinalStatistics(psTally, psFrames)
    /\ pspc' = "done"
    /\ UNCHANGED <<psArgs, psBackend, psInits, psUsed, psPos, psFrames, psTally,
                   notScan>>

PNext == DecodeFails \/ SelectBackend \/ AnalyzeWindow \/ DispatchFails \/ FinishScan

(***************************************************************************)
(* C12: a prescan over N samples with chunk size C produces floor(N/C)     *)
(* frames from non-overlapping windows; frame i has timestamp              *)
(* (i*C)/sample_rate, so timestamps increase strictly by a constant step,  *)
(* and a trailing window shorter than C produces no frame.                 *)
(***************************************************************************)
C12_FramesPerWindow ==
    /\ psPos = Len(psFrames) * psArgs.chunk_size
    /\ psPos <= psArgs.total_samples
    /\ \A i \in 1 .. Len(psFrames) :
          /\ psFrames[i].timestamp = Rat((i - 1) * psArgs.chunk_size, psArgs.sample_rate)
          /\ i > 1 => /\ RLt(psFrames[i - 1].timestamp, psFrames[i].timestamp)
                      /\ RSub(psFrames[i].timestamp, psFrames[i - 1].timestamp)
                            = Rat(psArgs.chunk_size, psArgs.sample_rate)
    /\ pspc = "done" => Len(psFrames) = psArgs.total_samples \div psArgs.chunk_size

\* 7 samples in chunks of 3: two frames, the last sample is dropped
C12_Witness ==
    /\ pspc = "done"
    /\ psArgs.total_samples = 7 /\ psArgs.chunk_size = 3
    /\ Len(psFrames) = 2
    /\ psFrames[2].timestamp = Rat(3, 8)

(***************************************************************************)
(* C13: prescanning 2 seconds of silence at 44100 Hz with chunk size 512   *)
(* yields 172 frames, total_beats = 0, average_bpm = 120 (the default)     *)
(* and energy_profile = "Low".                                             *)
(***************************************************************************)
C13_SilentPrescan ==
    (pspc = "done" /\ psArgs = SilentTwoSeconds) =>
        /\ Len(psFrames) = 172
        /\ psStats.total_beats = 0
        /\ psStats.average_bpm = RInt(120)
        /\ psStats.energy_profile = "Low"

C13_Witness ==
    /\ pspc = "done"
    /\ psArgs = SilentTwoSeconds
    /\ psBackend = "CPU"
    /\ Len(psFrames) = 172
    /\ psStats.energy_profile = "Low"
    /\ psFrames[172].timestamp = Rat(171 * 512, 44100)

(***************************************************************************)
(* C15: the GPU backend is tried first and, when its initialization        *)
(* fails, the CPU backend is selected and the scan goes on without an      *)
(* error; the selection is made once: every window of a scan is analyzed   *)
(* by the same backend and initialization is never retried.                *)
(***************************************************************************)
C15_BackendSelectedOnce ==
    /\ psInits <= 1
    /\ pspc \in {"scan", "done", "failed_backend"} =>
          psInits = 1 /\ psBackend \in {"GPU", "CPU"}
    /\ psUsed \subseteq {psBackend}
    /\ psBackend = "CPU" => pspc \in {"scan", "done"}
    /\ psFrames # <<>> => psUsed = {psBackend}

\* the GPU could not be initialized and the CPU scan ran to its end
C15_Witness ==
    /\ pspc = "done"
    /\ psBackend = "CPU" /\ psInits = 1
    /\ psUsed = {"CPU"}
    /\ Len(psFrames) = 3

(***************************************************************************)
(* C16: a compute-backend failure during a scan (analyze_chunk returns an  *)
(* error for some window) is recovered by falling back to the CPU backend; *)
(* the prescan never fails because the compute backend is unavailable.     *)
(***************************************************************************)
C16_DispatchFailureRecovered == pspc # "failed_backend"

\* the tempo values of the frames the predicate Collects(frame) selects
BpmOfFrames(frames, Collects(_)) ==
    LET sel == SelectSeq(frames, Collects)
    IN  [i \in 1 .. Len(sel) |-> sel[i].estimated_bpm]

\* statistics hold the count of beat frames and the mean, minimum and
\* maximum of bpms, or the defaults when bpms is empty
BpmStatisticsOf(stats, frames, bpms) ==
    /\ stats.total_beats = Cardinality({i \in 1 .. Len(frames) : frames[i].beat_detected})
    /\ bpms = <<>> =>
          /\ stats.average_bpm = RInt(120)
          /\ stats.bpm_range = <<RInt(60), RInt(180)>>
    /\ bpms # <<>> =>
          /\ RMul(stats.average_bpm, RInt(Len(bpms))) = RSum(bpms)
          /\ \E i \in 1 .. Len(bpms) : bpms[i] = stats.bpm_range[1]
          /\ \E i \in 1 .. Len(bpms) : bpms[i] = stats.bpm_range[2]
          /\ \A i \in 1 .. Len(bpms) :
                RLe(stats.bpm_range[1], bpms[i]) /\ RLe(bpms[i], stats.bpm_range[2])
          /\ RLe(stats.bpm_range[1], stats.average_bpm)
          /\ RLe(stats.average_bpm, stats.bpm_range[2])

BeatInClosedWindow(frame) ==
    /\ frame.beat_detected
    /\ RLe(RInt(60), frame.estimated_bpm) /\ RLe(frame.estimated_bpm, RInt(200))

BeatInOpenWindow(frame) ==
    /\ frame.beat_detected
    /\ RLt(RInt(60), frame.estimated_bpm) /\ RLt(frame.estimated_bpm, RInt(200))

(***************************************************************************)
(* C25 as stated: after a prescan total_beats is the number of frames with *)
(* beat_detected; average_bpm is the mean and bpm_range the (min, max) of  *)
(* the tempo of the beat frames whose tempo lies in [60, 200], so          *)
(* bpm_range.0 <= average_bpm <= bpm_range.1; with no value collected they *)
(* keep their defaults 120 and (60, 180).                                  *)
(***************************************************************************)
C25_BpmStatisticsClosed ==
    pspc = "done" =>
        BpmStatisticsOf(psStats, psFrames, BpmOfFrames(psFrames, BeatInClosedWindow))

(***************************************************************************)
(* C25 amended: the same, over the beat frames whose tempo is strictly     *)
(* between 60 and 200: a beat frame whose tempo is exactly 60 or exactly   *)
(* 200 (the values the normalizer clamps to) is counted as a beat but its  *)
(* tempo is not collected.                                                 *)
(***************************************************************************)
C25_BpmStatistics ==
    pspc = "done" =>
        BpmStatisticsOf(psStats, psFrames, BpmOfFrames(psFrames, BeatInOpenWindow))

\* three beat frames at 90, 120 and a clamped 200: two values collected
C25_Witness ==
    /\ pspc = "done"
    /\ psStats.total_beats = 3
    /\ psStats.average_bpm = RInt(105)
    /\ psStats.bpm_range = <<RInt(90), RInt(120)>>
    /\ \E i \in 1 .. Len(psFrames) : psFrames[i].estimated_bpm = RInt(200)

\* the mean over all frames of the sum of two bands
MeanOfTwo(frames, f, g) ==
    RDiv(RAdd(FieldSumRange(frames, f, 1, Len(frames)),
              FieldSumRange(frames, g, 1, Len(frames))),
         RInt(Len(frames)))

\* "Bass-Heavy" iff low strictly exceeds both others, "Treble-Focused" iff
\* high strictly exceeds both others, "Balanced" otherwise
ClassifiedBy(label, low, mid, high) ==
    /\ label = "Bass-Heavy" <=> (RLt(mid, low) /\ RLt(high, low))
    /\ label = "Treble-Focused" <=> (RLt(low, high) /\ RLt(mid, high))
    /\ label \in {"Bass-Heavy", "Treble-Focused", "Balanced"}

(***************************************************************************)
(* C26 as stated: the dominant-frequency classification compares, across   *)
(* all frames, mean(bass + sub_bass), mean(mid) and mean(treble +          *)
(* presence): "Bass-Heavy" iff the first strictly exceeds both others,     *)
(* "Treble-Focused" iff the third does, "Balanced" otherwise.              *)
(***************************************************************************)
C26_DominantOfBandSums ==
    (pspc = "done" /\ psFrames # <<>>) =>
        ClassifiedBy(psStats.dominant_frequency_range,
                     MeanOfTwo(psFrames, "bass", "sub_bass"),
                     FieldAvg(psFrames, "mid"),
                     MeanOfTwo(psFrames, "treble", "presence"))

(***************************************************************************)
(* C26 amended: the classification compares mean(bass), mean(mid) and      *)
(* mean(treble) across all frames; sub_bass and presence take no part.     *)
(***************************************************************************)
C26_DominantOfBands ==
    (pspc = "done" /\ psFrames # <<>>) =>
        ClassifiedBy(psStats.dominant_frequency_range,
                     FieldAvg(psFrames, "bass"),
                     FieldAvg(psFrames, "mid"),
                     FieldAvg(psFrames, "treble"))

\* strong presence and mid above treble: "Balanced", where the band sums
\* would answer "Treble-Focused"
C26_Witness ==
    /\ pspc = "done" /\ Len(psFrames) = 2
    /\ psStats.dominant_frequency_range = "Balanced"
    /\ RLt(FieldAvg(psFrames, "mid"), MeanOfTwo(psFrames, "treble", "presence"))
    /\ RLt(MeanOfTwo(psFrames, "bass", "sub_bass"),
           MeanOfTwo(psFrames, "treble", "presence"))


(***************************************************************************)
(* feature_normalizer.rs: save_parameters / load_parameters.  The file is  *)
(* the JSON object of the NormalizationParameters fields in declaration    *)
(* order; a file that cannot be read is [exists |-> FALSE].                *)
(***************************************************************************)
ParamFieldOrder ==
    <<"sub_bass", "bass", "mid", "treble", "presence", "spectral_centroid",
      "spectral_rolloff", "spectral_flux", "zero_crossing_rate", "onset_strength",
      "beat_strength", "bpm_min", "bpm_max", "volume", "dynamic_range",
      "pitch_confidence">>

ParamValue(params, k) ==
    IF k = "bpm_min" THEN params.bpm_min
    ELSE IF k = "bpm_max" THEN params.bpm_max
    ELSE params.max[k]

\* serde_json::to_string_pretty(&params)
ParamsToJson(params) ==
    JObj([i \in 1 .. Len(ParamFieldOrder) |-> JNum(ParamValue(params, ParamFieldOrder[i]))])

ParamIndex(k) == CHOOSE i \in 1 .. Len(ParamFieldOrder) : ParamFieldOrder[i] = k

ParamsOfFields(o) ==
    IF o.ok
    THEN [ok |-> TRUE,
          val |-> <<[max |-> [f \in ContFields |-> o.val[ParamIndex(f)][1]],
                     bpm_min |-> o.val[ParamIndex("bpm_min")][1],
                     bpm_max |-> o.val[ParamIndex("bpm_max")][1]]>>]
    ELSE [ok |-> FALSE, val |-> <<>>]

\* serde_json::from_str(&json)
ParamsFromJson(b) ==
    ParamsOfFields(PObj(b, [i \in 1 .. Len(ParamFieldOrder) |-> "f"]))

\* a save that writes the configured bounds instead of the effective ones
save_parameters_Configured(self) == ParamsToJson(self.parameters)

\* save_parameters: the bytes written
save_parameters(self) == ParamsToJson(effective_parameters(self))

\* a load that falls back to the defaults when the payload is bad
load_parameters_ResetOnError(self, file) ==
    IF file.exists /\ ParamsFromJson(file.bytes).ok
    THEN [status |-> "Ok",
          self |-> [self EXCEPT !.parameters = ParamsFromJson(file.bytes).val[1]]]
    ELSE [status |-> "Err", self |-> [self EXCEPT !.parameters = DefaultParameters]]

\* the parameters are assigned only after read_to_string and from_str succeed
LoadParsed(self, parsed) ==
    IF parsed.ok
    THEN [status |-> "Ok", self |-> [self EXCEPT !.parameters = parsed.val[1]]]
    ELSE [status |-> "Err", self |-> self]

load_parameters(self, file) ==
    IF file.exists THEN LoadParsed(self, ParamsFromJson(file.bytes))
    ELSE [status |-> "Err", self |-> self]

(***************************************************************************)
(* Parameter-file harness: normalizer A saves, normalizer B loads; A, B    *)
(* and a shadow of B that never loads are fed the same raw records.        *)
(***************************************************************************)
MaxParamCalls == 102

ParamRawInputs ==
    { RawScaled(Rat(1, 2), RInt(120)),
      [RawScaled(Rat(1, 4), RInt(40)) EXCEPT !["bass"] = RInt(1),
                                             !["spectral_centroid"] = RInt(20000)] }

NoFile == [exists |-> FALSE, bytes |-> <<>>]

FIdle ==
    /\ pmA = new /\ pmB = new /\ pmShadow = new
    /\ pmFile = NoFile /\ pmSaved = <<>> /\ pmLoad = "idle"
    /\ pmRaw = RawScaled(RZero, RZero)
    /\ pmOutA = NoOutput /\ pmOutB = NoOutput /\ pmOutS = NoOutput
    /\ pmCalls = 0

FInit ==
    /\ pmA \in {with_parameters(UniformParameters(ROne, RInt(60), RInt(200))), new_adaptive}
    /\ pmB \in {with_parameters(UniformParameters(RInt(2), RInt(50), RInt(180))),
                new_adaptive}
    /\ pmShadow = pmB
    /\ pmFile = NoFile /\ pmSaved = <<>> /\ pmLoad = "none"
    /\ pmRaw = RawScaled(RZero, RZero)
    /\ pmOutA = NoOutput /\ pmOutB = NoOutput /\ pmOutS = NoOutput
    /\ pmCalls = 0

\* one raw record goes through A, B and the shadow of B
ParamNormalize ==
    /\ pmCalls < MaxParamCalls
    /\ \E raw \in ParamRawInputs :
        /\ pmRaw' = raw
        /\ pmA' = AfterObserve(pmA, raw) /\ pmOutA' = normalize(pmA, raw)
        /\ pmB' = AfterObserve(pmB, raw) /\ pmOutB' = normalize(pmB, raw)
        /\ pmShadow' = AfterObserve(pmShadow, raw) /\ pmOutS' = normalize(pmShadow, raw)
    /\ pmCalls' = pmCalls + 1
    /\ UNCHANGED <<pmFile, pmSaved, pmLoad, notParams>>

\* A.save_parameters(path)
SaveParameters ==
    /\ pmSaved = <<>> /\ pmLoad = "none"
    /\ pmFile' = [exists |-> TRUE, bytes |-> save_parameters(pmA)]
    /\ pmSaved' = <<effective_parameters(pmA)>>
    /\ UNCHANGED <<pmA, pmB, pmShadow, pmLoad, pmRaw, pmOutA, pmOutB, pmOutS, pmCalls,
                   notParams>>

\* the saved file is cut short, gets a byte that is not JSON, or is removed
DamageFile ==
    /\ pmSaved # <<>> /\ pmLoad = "none"
    /\ pmFile = [exists |-> TRUE, bytes |-> ParamsToJson(pmSaved[1])]
    /\ pmFile' \in
          { [exists |-> TRUE, bytes |-> Take(pmFile.bytes, Len(pmFile.bytes) - 1)],
            [exists |-> TRUE, bytes |-> [pmFile.bytes EXCEPT ![2] = 88]],
            NoFile }
    /\ UNCHANGED <<pmA, pmB, pmShadow, pmSaved, pmLoad, pmRaw, pmOutA, pmOutB, pmOutS,
                   pmCalls, notParams>>

\* B.load_parameters(path); the outputs seen so far are forgotten
LoadParameters ==
    /\ pmLoad = "none"
    /\ pmB' = load_parameters(pmB, pmFile).self
    /\ pmLoad' = load_parameters(pmB, pmFile).status
    /\ pmOutA' = NoOutput /\ pmOutB' = NoOutput /\ pmOutS' = NoOutput
    /\ UNCHANGED <<pmA, pmShadow, pmFile, pmSaved, pmRaw, pmCalls, notParams>>

FNext == ParamNormalize \/ SaveParameters \/ DamageFile \/ LoadParameters

\* B normalizes with its configured bounds: fixed mode, or adaptive within
\* the warm-up
UsesConfigured(self) ==
    Len(self.observed_ranges) = 0
        \/ self.observed_ranges[1].sample_count <= WarmUpSamples

(***************************************************************************)
(* C17 as stated: after A saves and B loads the file, B's bounds are       *)
(* replaced wholesale and B.normalize(raw) equals what A.normalize(raw)    *)
(* returned with the saved bounds, for every raw record.                   *)
(***************************************************************************)
C17_LoaderMatchesSaver ==
    (pmLoad = "Ok" /\ pmOutB.status # "None") =>
        /\ pmB.parameters = pmSaved[1]
        /\ pmOutB = NormalizedWith(pmRaw, pmSaved[1])

(***************************************************************************)
(* C17 amended: the saved file holds A's effective bounds at the time of   *)
(* the save and B's parameters become exactly those bounds; a B that       *)
(* normalizes with its configured bounds (fixed mode, or adaptive within   *)
(* its warm-up) returns the normalization of raw under the saved bounds,   *)
(* which is what A returns while A's effective bounds are the saved ones.  *)
(* Nothing but B's parameters is changed by the load.                      *)
(***************************************************************************)
C17_ParametersRoundTrip ==
    pmLoad = "Ok" =>
        /\ ParamsFromJson(pmFile.bytes).val[1] = pmSaved[1]
        /\ pmB.parameters = pmSaved[1]
        /\ pmB.adaptive = pmShadow.adaptive
        /\ pmB.observed_ranges = pmShadow.observed_ranges
        /\ (pmOutB.status # "None" /\ UsesConfigured(pmB)) =>
              /\ pmOutB = NormalizedWith(pmRaw, pmSaved[1])
              /\ effective_parameters(pmA) = pmSaved[1] => pmOutB = pmOutA

\* an adaptive A past its warm-up saved its observed bounds, a fixed B
\* loaded them and both normalized the next record alike
C17_Witness ==
    /\ pmLoad = "Ok"
    /\ pmA.adaptive /\ ~pmB.adaptive
    /\ pmSaved[1] # DefaultParameters
    /\ pmSaved[1].max["bass"] = Rat(12, 10)
    /\ pmRaw = RawScaled(Rat(1, 2), RInt(120))
    /\ pmOutB.status = "Ok"
    /\ pmOutB = pmOutA
    /\ pmOutB # pmOutS

(***************************************************************************)
(* C18: load_parameters on an unreadable file or a malformed JSON payload  *)
(* returns an error and leaves the parameters, the adaptive flag and the   *)
(* observed ranges as they were, so later normalize calls behave as if the *)
(* load had not been attempted.                                            *)
(***************************************************************************)
C18_FailedLoadLeavesState ==
    /\ (pmLoad # "none" /\ ~(pmFile.exists /\ pmSaved # <<>>
                             /\ pmFile.bytes = ParamsToJson(pmSaved[1])))
          => pmLoad = "Err"
    /\ pmLoad = "Err" => pmB = pmShadow /\ pmOutB = pmOutS

\* a truncated file was refused and B, adaptive, went on past its warm-up
C18_Witness ==
    /\ pmLoad = "Err"
    /\ pmFile.exists /\ Len(pmFile.bytes) = Len(ParamsToJson(pmSaved[1])) - 1
    /\ pmB.adaptive /\ pmB.observed_ranges[1].sample_count > WarmUpSamples
    /\ pmOutB.status = "Ok"
    /\ pmB = pmShadow

(***************************************************************************)
(* fft.rs: TempoDetector.  Times are exact rationals, in seconds.          *)
(***************************************************************************)
MaxIntervals == 8
DefaultBpm == 120

\* TempoDetector::new
TempoDetector_new ==
    [beat_intervals |-> <<>>,
     last_beat_time |-> RZero,
     current_time |-> RZero,
     estimated_bpm |-> RInt(DefaultBpm)]

\* interval > 0.3 && interval < 2.0
ValidInterval(interval) == RLt(Rat(3, 10), interval) /\ RLt(interval, RInt(2))

\* a window that drops the newest interval instead of the oldest
PushInterval_DropNewest(intervals, interval) ==
    IF Len(intervals) + 1 > MaxIntervals THEN intervals ELSE Append(intervals, interval)

\* push(interval), then remove(0) when more than 8 are held
PushInterval(intervals, interval) ==
    IF Len(intervals) + 1 > MaxIntervals
    THEN Tail(Append(intervals, interval))
    ELSE Append(intervals, interval)

\* an estimate that is not refreshed when an interval is recorded
BpmOf_Stale(intervals) == RInt(DefaultBpm)

\* 60.0 / (sum / len)
BpmOf(intervals) == RDiv(RInt(60), RDiv(RSum(intervals), RInt(Len(intervals))))

Recorded(self, intervals) ==
    [self EXCEPT !.beat_intervals = intervals, !.estimated_bpm = BpmOf(intervals)]

\* the beat branch of update, the clock already advanced
OnBeat(self) ==
    [(IF RLt(RZero, self.last_beat_time)
         /\ ValidInterval(RSub(self.current_time, self.last_beat_time))
      THEN Recorded(self, PushInterval(self.beat_intervals,
                                       RSub(self.current_time, self.last_beat_time)))
      ELSE self)
     EXCEPT !.last_beat_time = self.current_time]

Advanced(self, time_delta) ==
    [self EXCEPT !.current_time = RAdd(self.current_time, time_delta)]

\* TempoDetector::update
update(self, beat_detected, time_delta) ==
    IF beat_detected THEN OnBeat(Advanced(self, time_delta))
    ELSE Advanced(self, time_delta)

(***************************************************************************)
(* Tempo harness.  AudioAnalyzer::analyze calls update with a time_delta   *)
(* of 1/60; a time_delta of 1/3 stands for 20 such calls of which only the *)
(* last may carry the beat.                                                *)
(***************************************************************************)
MaxTempoCalls == 11

TimeDeltas == {Rat(1, 60), Rat(1, 3)}

NoTempoInput == [beat_detected |-> FALSE, time_delta |-> RZero, before |-> TempoDetector_new]

TIdle ==
    /\ td = TempoDetector_new /\ tdIn = NoTempoInput /\ tdCalls = -1

TInit ==
    /\ td = TempoDetector_new /\ tdIn = NoTempoInput /\ tdCalls = 0

Update ==
    /\ tdCalls >= 0 /\ tdCalls < MaxTempoCalls
    /\ \E beat_detected \in BOOLEAN, time_delta \in TimeDeltas :
          /\ td' = update(td, beat_detected, time_delta)
          /\ tdIn' = [beat_detected |-> beat_detected, time_delta |-> time_delta,
                      before |-> td]
    /\ tdCalls' = tdCalls + 1
    /\ UNCHANGED notTempo

TNext == Update

\* the interval the last call measured, had it carried a beat
LastInterval ==
    RSub(RAdd(tdIn.before.current_time, tdIn.time_delta), tdIn.before.last_beat_time)

\* the last call carried a beat that closed an interval in (0.3, 2.0)
RecordedLast ==
    /\ tdCalls >= 1 /\ tdIn.beat_detected
    /\ RLt(RZero, tdIn.before.last_beat_time)
    /\ RLt(Rat(3, 10), LastInterval) /\ RLt(LastInterval, RInt(2))

(***************************************************************************)
(* C23: after any sequence of update calls at most 8 intervals are         *)
(* retained, each strictly between 0.3 s and 2.0 s, in arrival order, the  *)
(* oldest evicted when a ninth is recorded; an interval outside the range  *)
(* is not recorded but the beat still becomes the reference for the next   *)
(* interval.                                                               *)
(***************************************************************************)
C23_IntervalWindow ==
    /\ Len(td.beat_intervals) <= 8
    /\ \A i \in 1 .. Len(td.beat_intervals) :
          RLt(Rat(3, 10), td.beat_intervals[i]) /\ RLt(td.beat_intervals[i], RInt(2))
    /\ RecordedLast =>
          td.beat_intervals =
              IF Len(tdIn.before.beat_intervals) = 8
              THEN Tail(tdIn.before.beat_intervals) \o <<LastInterval>>
              ELSE tdIn.before.beat_intervals \o <<LastInterval>>
    /\ (tdCalls >= 1 /\ ~RecordedLast) => td.beat_intervals = tdIn.before.beat_intervals
    /\ (tdCalls >= 1 /\ tdIn.beat_detected) => td.last_beat_time = td.current_time
    /\ (tdCalls >= 1 /\ ~tdIn.beat_detected)
          => td.last_beat_time = tdIn.before.last_beat_time

\* eight intervals were held, the oldest of 2/3 s; the ninth pushed it out
C23_Witness ==
    /\ RecordedLast
    /\ Len(tdIn.before.beat_intervals) = 8
    /\ tdIn.before.beat_intervals[1] = Rat(2, 3)
    /\ td.beat_intervals = [i \in 1 .. 8 |-> Rat(1, 3)]

(***************************************************************************)
(* C24: the estimate is 120 until the first valid interval is recorded; a  *)
(* call with no beat, or with a beat whose interval is not valid, leaves   *)
(* the estimate and the intervals unchanged; when a valid interval is      *)
(* recorded the estimate becomes 60 divided by the mean of the retained    *)
(* intervals, strictly between 30 and 200.                                 *)
(***************************************************************************)
C24_EstimateFromMean ==
    /\ td.beat_intervals = <<>> => td.estimated_bpm = RInt(120)
    /\ (tdCalls >= 1 /\ ~RecordedLast) =>
          /\ td.estimated_bpm = tdIn.before.estimated_bpm
          /\ td.beat_intervals = tdIn.before.beat_intervals
    /\ RecordedLast =>
          /\ RMul(td.estimated_bpm, RSum(td.beat_intervals))
                = RInt(60 * Len(td.beat_intervals))
          /\ RLt(RInt(30), td.estimated_bpm) /\ RLt(td.estimated_bpm, RInt(200))

\* intervals of 1/3 s and 7/20 s: the estimate moved from 180 to 60 / (41/120)
C24_Witness ==
    /\ RecordedLast
    /\ td.beat_intervals = <<Rat(1, 3), Rat(7, 20)>>
    /\ tdIn.before.estimated_bpm = RInt(180)
    /\ td.estimated_bpm = Rat(7200, 41)

(***************************************************************************)
(* Spectral flux.  A window is given by its magnitude spectrum, the        *)
(* fft_size / 2 values compute_fft returns; the same samples give the same *)
(* spectrum.  Two extractors are fed the same windows: CpuAudioAnalyzer    *)
(* (cpu_analyzer.rs) and AudioAnalyzer (fft.rs), which keeps               *)
(* previous_spectrum.                                                      *)
(***************************************************************************)
FftSize == 4
MaxRoot == 4

\* the square root of a rational that is a square of k/d, k <= MaxRoot
RSqrt(r) ==
    <<CHOOSE k \in 0 .. MaxRoot : k * k = r[1], CHOOSE k \in 1 .. MaxRoot : k * k = r[2]>>

SpectrumMean(spectrum) == RDiv(RSum(spectrum), RInt(Len(spectrum)))

\* CpuAudioAnalyzer::calculate_spectral_flux: the standard deviation of the
\* spectrum
CpuSpectralFlux(spectrum) ==
    RSqrt(RDiv(SumSqDiff(spectrum, SpectrumMean(spectrum)), RInt(Len(spectrum))))

\* AudioAnalyzer::calculate_spectral_flux
calculate_spectral_flux(previous_spectrum, spectrum) ==
    IF Len(previous_spectrum) # Len(spectrum) THEN RZero
    ELSE RDiv(RSum([i \in 1 .. Len(spectrum) |->
                        RAbs(RSub(spectrum[i], previous_spectrum[i]))]),
              RInt(Len(spectrum)))

MaxFluxCalls == 4

\* the spectra of a silent window, two flat ones and four with one peak
SpectrumInputs ==
    { <<RZero, RZero>>, <<ROne, ROne>>, <<RInt(3), RInt(3)>>, <<RZero, RInt(2)>>,
      <<ROne, RInt(3)>>, <<RInt(2), RInt(4)>>, <<RInt(4), RZero>> }

XIdle ==
    /\ fxPrev = <<>> /\ fxLast = <<>> /\ fxSpec = <<>>
    /\ fxCpu = RZero /\ fxFft = RZero /\ fxCalls = -1

\* AudioAnalyzer::new: previous_spectrum: vec![0.0; fft_size / 2 + 1]
XInit ==
    /\ fxPrev = [i \in 1 .. FftSize \div 2 + 1 |-> RZero]
    /\ fxLast = <<>> /\ fxSpec = <<>>
    /\ fxCpu = RZero /\ fxFft = RZero /\ fxCalls = 0

\* one window through extract_raw_features and through analyze
AnalyzeSpectrum ==
    /\ fxCalls >= 0 /\ fxCalls < MaxFluxCalls
    /\ \E spectrum \in SpectrumInputs :
          /\ fxSpec' = spectrum
          /\ fxCpu' = CpuSpectralFlux(spectrum)
          /\ fxFft' = calculate_spectral_flux(fxPrev, spectrum)
          /\ fxPrev' = spectrum
    /\ fxLast' = fxSpec
    /\ fxCalls' = fxCalls + 1
    /\ UNCHANGED notFlux

XNext == AnalyzeSpectrum

(***************************************************************************)
(* C27: the CPU feature extractor computes spectral flux as the magnitude  *)
(* difference against the previous window's spectrum: the first window     *)
(* analyzed by a fresh instance yields flux 0 for any input, and a window  *)
(* identical to its predecessor yields flux 0.                             *)
(***************************************************************************)
C27_CpuFluxAgainstPrevious ==
    /\ fxCalls = 1 => fxCpu = RZero
    /\ (fxCalls >= 2 /\ fxSpec = fxLast) => fxCpu = RZero

\* the same two properties for AudioAnalyzer in fft.rs
FftFluxAgainstPrevious ==
    /\ fxCalls = 1 => fxFft = RZero
    /\ (fxCalls >= 2 /\ fxSpec = fxLast) => fxFft = RZero
    /\ fxCalls >= 2 =>
          RMul(fxFft, RInt(Len(fxSpec)))
              = RSum([i \in 1 .. Len(fxSpec) |-> RAbs(RSub(fxSpec[i], fxLast[i]))])

(***************************************************************************)
(* Quantizer harness: an input is drawn, packed, then unpacked.            *)
(***************************************************************************)
MaxDen == 7

\* rationals n/d with d <= MaxDen, between -1 and hi + 1
Grid(hi) ==
    { Rat(n, d) : n \in -MaxDen .. (hi + 1) * MaxDen, d \in 1 .. MaxDen }

QInputs(kind) ==
    IF kind = "float"
    THEN { x \in Grid(1) : RLe(RInt(-1), x) /\ RLe(x, RInt(2)) }
    ELSE { x \in Grid(BeatMax) : RLe(RInt(-1), x) /\ RLe(x, RInt(BeatMax + 1)) }

QIdle ==
    /\ qIn = RZero
    /\ qKind = "none"
    /\ qPacked = -1
    /\ qUnpacked = RZero
    /\ qpc = "idle"

QInit ==
    /\ qKind \in {"float", "beat"}
    /\ qIn \in QInputs(qKind)
    /\ qPacked = -1
    /\ qUnpacked = RZero
    /\ qpc = "in"

PackFloatStep ==
    /\ qpc = "in" /\ qKind = "float"
    /\ qPacked' = pack_float(qIn)
    /\ qpc' = "packed"
    /\ UNCHANGED <<qIn, qKind, qUnpacked, notQuant>>

UnpackFloatStep ==
    /\ qpc = "packed" /\ qKind = "float"
    /\ qUnpacked' = unpack_float(qPacked)
    /\ qpc' = "done"
    /\ UNCHANGED <<qIn, qKind, qPacked, notQuant>>

PackBeatStep ==
    /\ qpc = "in" /\ qKind = "beat"
    /\ qPacked' = pack_beat_strength(qIn)
    /\ qpc' = "packed"
    /\ UNCHANGED <<qIn, qKind, qUnpacked, notQuant>>

UnpackBeatStep ==
    /\ qpc = "packed" /\ qKind = "beat"
    /\ qUnpacked' = unpack_beat_strength(qPacked)
    /\ qpc' = "done"
    /\ UNCHANGED <<qIn, qKind, qPacked, notQuant>>

(***************************************************************************)
(* PrescanData values handed to save_arv.                                  *)
(***************************************************************************)
MaxFrames == 2

\* (file_info, statistics) pairs
HeaderInputs ==
    { <<[filename |-> <<97, 46, 119>>, duration_seconds |-> RInt(2),
         sample_rate |-> RInt(44100), total_samples |-> 88200,
         frame_rate |-> Rat(44100, 512), chunk_size |-> 512],
        [peak_bass |-> RZero, peak_mid |-> RZero, peak_treble |-> RZero,
         peak_presence |-> RZero, peak_volume |-> RZero,
         peak_spectral_flux |-> RZero, peak_onset |-> RZero,
         total_beats |-> 0, average_bpm |-> RInt(120),
         bpm_range |-> <<RInt(60), RInt(180)>>,
         dominant_frequency_range |-> <<85>>, energy_profile |-> <<85>>,
         complexity_score |-> Rat(1, 2)]>>,
      <<[filename |-> <<>>, duration_seconds |-> Rat(1, 2),
         sample_rate |-> RInt(48000), total_samples |-> 24000,
         frame_rate |-> Rat(48000, 1024), chunk_size |-> 1024],
        [peak_bass |-> ROne, peak_mid |-> Rat(3, 4), peak_treble |-> Rat(1, 3),
         peak_presence |-> Rat(1, 8), peak_volume |-> Rat(9, 10),
         peak_spectral_flux |-> Rat(2, 5), peak_onset |-> Rat(1, 7),
         total_beats |-> 37, average_bpm |-> Rat(257, 2),
         bpm_range |-> <<RInt(96), RInt(141)>>,
         dominant_frequency_range |-> <<66, 97>>, energy_profile |-> <<72>>,
         complexity_score |-> Rat(2, 3)]>> }

\* a frame whose fields are all derived from the level a: the fields are in
\* their domains for a in [0,1] (a = 3/2 gives an out-of-domain frame)
MkFrame(a, beat) ==
    [timestamp |-> RZero,
     frequency_bands |->
        [bass |-> a, mid |-> RMul(a, Rat(1, 2)), treble |-> RMul(a, Rat(1, 3)),
         sub_bass |-> RMul(a, a), presence |-> RMul(RAdd(a, ROne), Rat(1, 4))],
     beat_detected |-> beat,
     beat_strength |-> RMul(a, RInt(5)),
     estimated_bpm |-> RAdd(RInt(100), a),
     spectral_centroid |-> RMul(a, Rat(1, 5)),
     spectral_rolloff |-> RMul(a, Rat(2, 3)),
     pitch_confidence |-> RMul(a, Rat(1, 7)),
     zero_crossing_rate |-> RMul(a, Rat(1, 4)),
     spectral_flux |-> a,
     onset_strength |-> RMul(RAdd(a, Rat(1, 2)), Rat(2, 5)),
     dynamic_range |-> RMul(a, Rat(1, 6)),
     volume |-> RMul(a, Rat(4, 5))]

FrameInputs ==
    { MkFrame(RZero, FALSE), MkFrame(Rat(1, 3), TRUE), MkFrame(ROne, TRUE),
      MkFrame(Rat(3, 2), FALSE) }

SeqsUpTo(S, n) == UNION { [1 .. k -> S] : k \in 0 .. n }

\* frame i (from 0) carries the timestamp of window i, i / frame_rate
Stamp(frames, file_info) ==
    [i \in 1 .. Len(frames) |->
        [frames[i] EXCEPT !.timestamp = RDiv(RInt(i - 1), file_info.frame_rate)]]

PrescanInputs ==
    { [file_info |-> h[1], frames |-> Stamp(fs, h[1]), statistics |-> h[2]] :
        h \in HeaderInputs, fs \in SeqsUpTo(FrameInputs, MaxFrames) }

(***************************************************************************)
(* save_arv write by write.  The file is wrapped in a BufWriter: a         *)
(* write_all that fits the spare capacity is only buffered, one that does  *)
(* not fit flushes the buffer first, one as long as the capacity goes to   *)
(* the file directly.  save_arv never calls flush: the buffered bytes      *)
(* reach the file when the writer is dropped, and a failure of that flush  *)
(* is discarded.  The file accepts wQuota bytes in all (Unlimited: any     *)
(* number); a write beyond that stores what fits and fails.                *)
(***************************************************************************)
BufCapacity == 32
Unlimited == 0 - 1

\* a write_all on the File
FileWriteAll(file, quota, buf) ==
    IF quota = Unlimited \/ Len(file) + Len(buf) <= quota
    THEN [ok |-> TRUE, file |-> file \o buf]
    ELSE [ok |-> FALSE, file |-> file \o Take(buf, quota - Len(file))]

\* BufWriter::flush_buf
flush_buf(w, quota) ==
    [ok |-> FileWriteAll(w.file, quota, w.buf).ok,
     file |-> FileWriteAll(w.file, quota, w.buf).file,
     buf |-> Drop(w.buf, Len(FileWriteAll(w.file, quota, w.buf).file) - Len(w.file))]

WriteAfterFlush(w, quota, buf) ==
    IF ~w.ok THEN w
    ELSE IF Len(buf) >= BufCapacity
    THEN [ok |-> FileWriteAll(w.file, quota, buf).ok,
          file |-> FileWriteAll(w.file, quota, buf).file, buf |-> w.buf]
    ELSE [w EXCEPT !.buf = w.buf \o buf]

\* writer.write_all(buf)
BufWriter_write_all(w, quota, buf) ==
    IF Len(buf) < BufCapacity - Len(w.buf) THEN [w EXCEPT !.buf = w.buf \o buf]
    ELSE IF Len(buf) > BufCapacity - Len(w.buf)
    THEN WriteAfterFlush(flush_buf(w, quota), quota, buf)
    ELSE WriteAfterFlush(w, quota, buf)

\* the writer goes out of scope: flush_buf, its result discarded
DropWriter(w, quota) == flush_buf(w, quota).file

\* the write_all calls of save_arv, in order
SaveChunks(prescan_data) ==
    <<MAGIC_BYTES, <<FORMAT_VERSION>>,
      LE32(Len(FileInfoToJson(prescan_data.file_info))),
      FileInfoToJson(prescan_data.file_info),
      LE32(Len(StatsToJson(prescan_data.statistics))),
      StatsToJson(prescan_data.statistics),
      LE32(Len(prescan_data.frames))>>
        \o [i \in 1 .. Len(prescan_data.frames) |-> WrittenFrameBytes(prescan_data.frames[i])]

QuotaInputs(prescan_data) ==
    {0, 5, Len(save_arv(prescan_data)) \div 2, Len(save_arv(prescan_data)) - 1, Unlimited}

WIdle ==
    /\ wData = <<>> /\ wQuota = 0 /\ wChunks = <<>> /\ wBuf = <<>> /\ wDisk = <<>>
    /\ wRet = "none" /\ wpc = "idle"

WInit ==
    /\ wData \in PrescanInputs
    /\ wQuota \in QuotaInputs(wData)
    /\ wChunks = <<>> /\ wBuf = <<>> /\ wDisk = <<>>
    /\ wRet = "none" /\ wpc = "start"

\* File::create(path)? fails
CreateFails ==
    /\ wpc = "start"
    /\ wRet' = "Err" /\ wpc' = "done"
    /\ UNCHANGED <<wData, wQuota, wChunks, wBuf, wDisk, notWrite>>

\* File::create(path)? succeeds, BufWriter::new(file)
CreateFile ==
    /\ wpc = "start"
    /\ wChunks' = SaveChunks(wData)
    /\ wpc' = "writing"
    /\ UNCHANGED <<wData, wQuota, wBuf, wDisk, wRet, notWrite>>

Written(w) ==
    IF w.ok
    THEN /\ wBuf' = w.buf /\ wDisk' = w.file
         /\ wChunks' = Tail(wChunks)
         /\ UNCHANGED <<wRet, wpc>>
    ELSE /\ wBuf' = <<>> /\ wDisk' = DropWriter(w, wQuota)
         /\ wRet' = "Err" /\ wpc' = "done"
         /\ UNCHANGED wChunks

\* writer.write_all(..)?
WriteAll ==
    /\ wpc = "writing" /\ wChunks # <<>>
    /\ Written(BufWriter_write_all([ok |-> TRUE, file |-> wDisk, buf |-> wBuf],
                                   wQuota, Head(wChunks)))
    /\ UNCHANGED <<wData, wQuota, notWrite>>

\* Ok(()) and the writer is dropped
ReturnOk ==
    /\ wpc = "writing" /\ wChunks = <<>>
    /\ wDisk' = DropWriter([ok |-> TRUE, file |-> wDisk, buf |-> wBuf], wQuota)
    /\ wBuf' = <<>>
    /\ wRet' = "Ok" /\ wpc' = "done"
    /\ UNCHANGED <<wData, wQuota, wChunks, notWrite>>

WNext == CreateFails \/ CreateFile \/ WriteAll \/ ReturnOk

(***************************************************************************)
(* C19: if any write during save_arv fails, the final flush of buffered    *)
(* bytes included, save_arv returns an error: it never returns Ok while    *)
(* the file is incomplete.                                                 *)
(***************************************************************************)
C19_NoSilentLoss == wRet = "Ok" => wDisk = save_arv(wData)

(***************************************************************************)
(* Codec state machine: a PrescanData is saved, the file may then be       *)
(* damaged (header bytes altered, the file cut short), and it is loaded.   *)
(***************************************************************************)
NotLoaded == [status |-> "None", data |-> <<>>]

CIdle ==
    /\ data = <<>>
    /\ disk = <<>>
    /\ loaded = NotLoaded
    /\ cpc = "idle"

CInit ==
    /\ data \in PrescanInputs
    /\ disk = <<>>
    /\ loaded = NotLoaded
    /\ cpc = "new"

SaveArv ==
    /\ cpc = "new"
    /\ disk' = save_arv(data)
    /\ cpc' = "saved"
    /\ UNCHANGED <<data, loaded, notCodec>>

\* one of the four magic bytes is overwritten
AlterMagic ==
    /\ cpc = "saved"
    /\ Take(disk, 4) = MAGIC_BYTES
    /\ \E i \in 1 .. 4 : disk' = [disk EXCEPT ![i] = 88]
    /\ UNCHANGED <<data, loaded, cpc, notCodec>>

\* the version byte is overwritten
AlterVersion ==
    /\ cpc = "saved"
    /\ disk[5] = FORMAT_VERSION
    /\ \E v \in {0, FORMAT_VERSION + 1, 255} : disk' = [disk EXCEPT ![5] = v]
    /\ UNCHANGED <<data, loaded, cpc, notCodec>>

\* the file is cut to a strict prefix
TruncateFile ==
    /\ cpc = "saved"
    /\ disk = save_arv(data)
    /\ \E k \in 0 .. Len(disk) - 1 : disk' = Take(disk, k)
    /\ cpc' = "cut"
    /\ UNCHANGED <<data, loaded, notCodec>>

\* what a build may find in the 4 bytes after the read buffer:
\* <<beat_data, beat_strength, reserved lo, reserved hi>>
PastEndBytes == {<<0, 0, 0, 0>>, <<1, 255, 0, 0>>, <<254, 128, 7, 7>>}

LoadArv ==
    /\ cpc \in {"saved", "cut"}
    /\ \E past \in [1 .. FramesDereferenced(disk) -> PastEndBytes] :
            loaded' = load_arv(disk, past)
    /\ cpc' = "loaded"
    /\ UNCHANGED <<data, disk, notCodec>>

CNext ==
    \/ SaveArv
    \/ AlterMagic
    \/ AlterVersion
    \/ TruncateFile
    \/ LoadArv

QNext ==
    \/ PackFloatStep
    \/ UnpackFloatStep
    \/ PackBeatStep
    \/ UnpackBeatStep


(***************************************************************************)
(* Claims about the codec.                                                 *)
(***************************************************************************)
IsStrictPrefix(p, full) == Len(p) < Len(full) /\ p = Take(full, Len(p))

Within(x, y, tol) == RLe(RAbs(RSub(x, y)), tol)

InUnit(x) == RLe(RZero, x) /\ RLe(x, ROne)

FrameInDomain(f) ==
    /\ InUnit(f.frequency_bands.bass) /\ InUnit(f.frequency_bands.mid)
    /\ InUnit(f.frequency_bands.treble) /\ InUnit(f.frequency_bands.sub_bass)
    /\ InUnit(f.frequency_bands.presence)
    /\ InUnit(f.spectral_centroid) /\ InUnit(f.pitch_confidence)
    /\ InUnit(f.onset_strength)
    /\ RLe(RZero, f.beat_strength) /\ RLe(f.beat_strength, RInt(BeatMax))

\* the quantized fields of a loaded frame g against the saved frame f
QuantizedFieldsClose(f, g) ==
    /\ Within(g.frequency_bands.bass, f.frequency_bands.bass, <<1, U16Scale>>)
    /\ Within(g.frequency_bands.mid, f.frequency_bands.mid, <<1, U16Scale>>)
    /\ Within(g.frequency_bands.treble, f.frequency_bands.treble, <<1, U16Scale>>)
    /\ Within(g.frequency_bands.sub_bass, f.frequency_bands.sub_bass, <<1, U16Scale>>)
    /\ Within(g.frequency_bands.presence, f.frequency_bands.presence, <<1, U16Scale>>)
    /\ Within(g.spectral_centroid, f.spectral_centroid, <<1, U16Scale>>)
    /\ Within(g.pitch_confidence, f.pitch_confidence, <<1, U16Scale>>)
    /\ Within(g.onset_strength, f.onset_strength, <<1, U16Scale>>)

BeatFieldsClose(f, g) ==
    /\ Within(g.beat_strength, f.beat_strength, <<1, BeatScale>>)
    /\ g.beat_detected = f.beat_detected

\* the file on disk is exactly what save_arv wrote, and it has been loaded
LoadedUntouched == cpc = "loaded" /\ disk = save_arv(data)

ValidInput ==
    /\ Len(data.frames) >= 1
    /\ \A i \in 1 .. Len(data.frames) : FrameInDomain(data.frames[i])

(***************************************************************************)
(* C1: for a PrescanData with at least one frame and in-domain fields,     *)
(* load_arv(save_arv(data)) returns the same file_info, statistics and     *)
(* frame count, every quantized field within 1/65535, beat_strength        *)
(* within 1/51 and beat_detected equal.                                    *)
(***************************************************************************)
C1_RoundTrip ==
    (LoadedUntouched /\ ValidInput) =>
        /\ loaded.status = "Ok"
        /\ loaded.data[1].file_info = data.file_info
        /\ loaded.data[1].statistics = data.statistics
        /\ Len(loaded.data[1].frames) = Len(data.frames)
        /\ \A i \in 1 .. Len(data.frames) :
              /\ QuantizedFieldsClose(data.frames[i], loaded.data[1].frames[i])
              /\ BeatFieldsClose(data.frames[i], loaded.data[1].frames[i])

(***************************************************************************)
(* C2: a file whose first 4 bytes are not "ARVV" fails with the bad-magic  *)
(* error; a file with the right magic and a version byte other than 1      *)
(* fails with the unsupported-version error; the magic is looked at first  *)
(* and no PrescanData is returned in either case.                          *)
(***************************************************************************)
C2_BadMagicVersionRejected ==
    cpc = "loaded" =>
        /\ (Len(disk) >= 4 /\ Take(disk, 4) # MAGIC_BYTES)
              => loaded = [status |-> "BadMagic", data |-> <<>>]
        /\ (Len(disk) >= 5 /\ Take(disk, 4) = MAGIC_BYTES /\ disk[5] # FORMAT_VERSION)
              => loaded = [status |-> "UnsupportedVersion", data |-> <<>>]

C2_Witness ==
    /\ cpc = "loaded" /\ Len(disk) >= 5
    /\ Take(disk, 4) # MAGIC_BYTES /\ disk[5] = FORMAT_VERSION + 1
    /\ loaded.status = "BadMagic"

(***************************************************************************)
(* C9: after load_arv every frame has spectral_rolloff, zero_crossing_rate,*)
(* spectral_flux, volume and dynamic_range equal to 0 and estimated_bpm    *)
(* equal to the loaded statistics.average_bpm, whatever was saved.         *)
(***************************************************************************)
C9_UnpersistedFields ==
    (cpc = "loaded" /\ loaded.status = "Ok") =>
        \A i \in 1 .. Len(loaded.data[1].frames) :
            LET g == loaded.data[1].frames[i]
            IN  /\ g.spectral_rolloff = RZero
                /\ g.zero_crossing_rate = RZero
                /\ g.spectral_flux = RZero
                /\ g.volume = RZero
                /\ g.dynamic_range = RZero
                /\ g.estimated_bpm = loaded.data[1].statistics.average_bpm

C9_Witness ==
    /\ cpc = "loaded" /\ loaded.status = "Ok"
    /\ Len(loaded.data[1].frames) = 2
    /\ data.frames[2].volume # RZero
    /\ data.frames[2].spectral_rolloff # RZero
    /\ data.frames[2].estimated_bpm # data.statistics.average_bpm
    /\ data.statistics.average_bpm # data.statistics.bpm_range[1]

(***************************************************************************)
(* C10: load_arv of any strict prefix of a saved file fails with an error; *)
(* a successful load never holds fewer frames than the stored frame count. *)
(***************************************************************************)
C10_TruncatedFileRejected ==
    cpc = "loaded" =>
        /\ IsStrictPrefix(disk, save_arv(data))
              => (loaded.status \notin {"Ok", "None"} /\ loaded.data = <<>>)
        /\ loaded.status = "Ok"
              => Len(loaded.data[1].frames) = load_header(disk).frame_count

C10_Witness ==
    /\ cpc = "loaded"
    /\ Len(data.frames) = 2
    /\ Len(disk) = Len(save_arv(data)) - 1
    /\ loaded.status = "Io"

\* the bytes past the read buffer all zero, for every frame dereferenced
ZeroPast(b) == [i \in 1 .. FramesDereferenced(b) |-> <<0, 0, 0, 0>>]

(***************************************************************************)
(* C21: every packed frame written by save_arv carries the beat flag in    *)
(* bit 0 of its flag byte (value 0 or 1) and two reserved bytes that are   *)
(* zero; the frames decoded by load_arv do not depend on the reserved      *)
(* bytes or on bits 1-7 of the flag byte, so what is decoded is decided by *)
(* the other bits of the file.                                             *)
(***************************************************************************)
C21_ReservedZeroFlagBit0 ==
    /\ (cpc # "new" /\ disk = save_arv(data)) =>
          \A i \in 1 .. Len(data.frames) :
              /\ Len(WrittenFrameBytes(data.frames[i])) = PackedFrameSize
              /\ WrittenFrameBytes(data.frames[i])[17] \in {0, 1}
              /\ WrittenFrameBytes(data.frames[i])[19] = 0
              /\ WrittenFrameBytes(data.frames[i])[20] = 0
    /\ (cpc = "loaded" /\ loaded.status = "Ok") => loaded = load_arv(disk, ZeroPast(disk))

\* data with every frame timestamp replaced by t
Restamped(prescan_data, t) ==
    [prescan_data EXCEPT
        !.frames = [i \in 1 .. Len(prescan_data.frames) |->
                        [prescan_data.frames[i] EXCEPT !.timestamp = t]]]

(***************************************************************************)
(* C29: frame timestamps are not stored in the file; load_arv gives frame  *)
(* i (from 0) the timestamp i / file_info.frame_rate, so for data whose    *)
(* frames carry timestamp_i = i / frame_rate, load_arv(save_arv(data))     *)
(* reproduces every frame timestamp, in strictly increasing order.         *)
(***************************************************************************)
C29_TimestampsRebuilt ==
    /\ (cpc # "new" /\ disk = save_arv(data)) => disk = save_arv(Restamped(data, RInt(7)))
    /\ (cpc = "loaded" /\ loaded.status = "Ok") =>
          \A i \in 1 .. Len(loaded.data[1].frames) :
              RMul(loaded.data[1].frames[i].timestamp, loaded.data[1].file_info.frame_rate)
                  = RInt(i - 1)
    /\ (LoadedUntouched /\ loaded.status = "Ok") =>
          /\ Len(loaded.data[1].frames) = Len(data.frames)
          /\ \A i \in 1 .. Len(data.frames) :
                loaded.data[1].frames[i].timestamp = data.frames[i].timestamp
          /\ \A i \in 1 .. Len(data.frames) - 1 :
                RLt(loaded.data[1].frames[i].timestamp,
                    loaded.data[1].frames[i + 1].timestamp)

\* two frames at 44100 / 512 frames per second come back at 0 and 512/44100
C29_Witness ==
    /\ LoadedUntouched /\ loaded.status = "Ok"
    /\ Len(data.frames) = 2
    /\ data.file_info.frame_rate = Rat(44100, 512)
    /\ loaded.data[1].frames[1].timestamp = RZero
    /\ loaded.data[1].frames[2].timestamp = Rat(512, 44100)
    /\ data.frames[2].timestamp = Rat(512, 44100)


(***************************************************************************)
(* C7: for x in [0,1] unpack_float(pack_float(x)) is within 1/65535 of x,  *)
(* and for s in [0,5] unpack_beat_strength(pack_beat_strength(s)) is       *)
(* within 1/51 of s.                                                       *)
(***************************************************************************)
C7_RoundTripTolerance ==
    qpc = "done" =>
        /\ (qKind = "float" /\ RLe(RZero, qIn) /\ RLe(qIn, ROne))
              => RLe(RAbs(RSub(qUnpacked, qIn)), <<1, U16Scale>>)
        /\ (qKind = "beat" /\ RLe(RZero, qIn) /\ RLe(qIn, RInt(BeatMax)))
              => RLe(RAbs(RSub(qUnpacked, qIn)), <<1, BeatScale>>)

C7_Witness ==
    /\ qpc = "done" /\ qKind = "float"
    /\ RLt(RZero, qIn) /\ RLt(qIn, ROne)
    /\ qUnpacked # qIn

(***************************************************************************)
(* C8: the quantizers hit the documented boundary values, and inputs       *)
(* outside the domain are clamped to the nearest boundary value first.     *)
(***************************************************************************)
C8_BoundaryValues ==
    qpc \in {"packed", "done"} =>
        /\ qKind = "float" =>
              /\ qIn = RZero => qPacked = 0
              /\ qIn = ROne => qPacked = 65535
              /\ qIn = <<1, 2>> => qPacked = 32767
              /\ RLt(qIn, RZero) => qPacked = 0
              /\ RLt(ROne, qIn) => qPacked = 65535
        /\ qKind = "beat" =>
              /\ qIn = RZero => qPacked = 0
              /\ qIn = RInt(5) => qPacked = 255
              /\ RLt(qIn, RZero) => qPacked = 0
              /\ RLt(RInt(5), qIn) => qPacked = 255

C8_Witness ==
    /\ qpc = "packed" /\ qKind = "float"
    /\ qIn = <<1, 2>> /\ qPacked = 32767

\* the clamped input times the scale, before the conversion to an integer
Scaled(kind, x) ==
    IF kind = "float" THEN RMul(RClamp(x, RZero, ROne), RInt(U16Scale))
    ELSE RMul(RClamp(x, RZero, RInt(BeatMax)), RInt(BeatScale))

ScaleOf(kind) == IF kind = "float" THEN U16Scale ELSE BeatScale

\* the integer nearest to a non-negative r, halves upward
Nearest(r) == CHOOSE k \in 0 .. U16Scale + 1 :
                  RLe(RInt(2 * k - 1), RMul(r, RInt(2))) /\ RLt(RMul(r, RInt(2)), RInt(2 * k + 1))

(***************************************************************************)
(* C20 as stated: pack_float(x) is round(clamp(x,0,1) * 65535) and         *)
(* pack_beat_strength(s) is round(clamp(s,0,5) * 51), rounding to nearest; *)
(* unpack_float(v) is v/65535 and unpack_beat_strength(v) is v/51.         *)
(***************************************************************************)
C20_PackRoundsToNearest ==
    /\ qpc \in {"packed", "done"} => qPacked = Nearest(Scaled(qKind, qIn))
    /\ qpc = "done" => qUnpacked = Rat(qPacked, ScaleOf(qKind))

(***************************************************************************)
(* C20 amended: pack_float(x) is clamp(x,0,1) * 65535 with its fraction    *)
(* dropped (the largest integer not above it) and pack_beat_strength(s) is *)
(* clamp(s,0,5) * 51 with its fraction dropped; unpack_float(v) is v/65535 *)
(* and unpack_beat_strength(v) is v/51.                                    *)
(***************************************************************************)
C20_PackTruncates ==
    /\ qpc \in {"packed", "done"} =>
          /\ qPacked \in 0 .. ScaleOf(qKind) * (IF qKind = "float" THEN 1 ELSE BeatMax)
          /\ RLe(RInt(qPacked), Scaled(qKind, qIn))
          /\ RLt(Scaled(qKind, qIn), RInt(qPacked + 1))
    /\ qpc = "done" => qUnpacked = Rat(qPacked, ScaleOf(qKind))

\* 5/7 of full scale is 46810.71..: packed as 46810, not the nearest 46811,
\* and read back as 46810/65535
C20_Witness ==
    /\ qpc = "done" /\ qKind = "float"
    /\ qIn = Rat(5, 7)
    /\ qPacked = 46810
    /\ Nearest(Scaled(qKind, qIn)) = 46811
    /\ qUnpacked = Rat(46810, U16Scale)

(***************************************************************************)
(* Specifications: one per component; the other components stay idle.      *)
(***************************************************************************)
QuantInit == QInit /\ CIdle /\ SIdle /\ NIdle /\ BIdle /\ PIdle /\ FIdle /\ WIdle /\ TIdle /\ XIdle

SpecQuant == QuantInit /\ [][QNext]_vars

CodecInit == CInit /\ QIdle /\ SIdle /\ NIdle /\ BIdle /\ PIdle /\ FIdle /\ WIdle /\ TIdle /\ XIdle

SpecCodec == CodecInit /\ [][CNext]_vars

SyncInit == SInit /\ QIdle /\ CIdle /\ NIdle /\ BIdle /\ PIdle /\ FIdle /\ WIdle /\ TIdle /\ XIdle

SpecSync == SyncInit /\ [][SNext]_vars

NormInit == NInit /\ QIdle /\ CIdle /\ SIdle /\ BIdle /\ PIdle /\ FIdle /\ WIdle /\ TIdle /\ XIdle

SpecNorm == NormInit /\ [][NNext]_vars

BeatInit == BInit /\ QIdle /\ CIdle /\ SIdle /\ NIdle /\ PIdle /\ FIdle /\ WIdle /\ TIdle /\ XIdle

SpecBeat == BeatInit /\ [][BNext]_vars

ScanInit == PInit /\ QIdle /\ CIdle /\ SIdle /\ NIdle /\ BIdle /\ FIdle /\ WIdle /\ TIdle /\ XIdle

SpecScan == ScanInit /\ [][PNext]_vars

ParamsInit == FInit /\ QIdle /\ CIdle /\ SIdle /\ NIdle /\ BIdle /\ PIdle /\ WIdle /\ TIdle /\ XIdle

SpecParams == ParamsInit /\ [][FNext]_vars

WriteInit == WInit /\ QIdle /\ CIdle /\ SIdle /\ NIdle /\ BIdle /\ PIdle /\ FIdle /\ TIdle /\ XIdle

SpecWrite == WriteInit /\ [][WNext]_vars

TempoInit == TInit /\ QIdle /\ CIdle /\ SIdle /\ NIdle /\ BIdle /\ PIdle /\ FIdle /\ WIdle /\ XIdle

SpecTempo == TempoInit /\ [][TNext]_vars

FluxInit ==
    XInit /\ QIdle /\ CIdle /\ SIdle /\ NIdle /\ BIdle /\ PIdle /\ FIdle /\ WIdle /\ TIdle

SpecFlux == FluxInit /\ [][XNext]_vars

====
